---- MODULE Spec2Model ----
(***************************************************************************)
(* Model of the flat-reference converter of                                *)
(* zarr/virtual-zarr/parquet_to_icechunk.py:                               *)
(*   flat_to_chunk_index, kerchunk_parquet_to_icechunk,                    *)
(*   explicit_parquet_to_icechunk, create_icechunk_from_flat_parquet.      *)
(*                                                                         *)
(* Python values are modelled as follows.                                  *)
(*   tuple / list      a sequence                                          *)
(*   int               an integer (Python ints are unbounded; % and // on  *)
(*                     a positive divisor are floor-mod and floor-div,     *)
(*                     which is what % and \div are here)                  *)
(*   None / NaN        the string NaN (pd.isna is true of exactly it)      *)
(*   DataFrame         [columns, index, rows]: the column names, the row   *)
(*                     labels in table order, and the rows in table order, *)
(*                     each row a function from column name to value       *)
(*   raise E           the call ends with err = E and returns nothing      *)
(***************************************************************************)
EXTENDS Integers, Sequences, FiniteSets, TLC

VARIABLES
    pc,                 \* position of the call being run
    flat_idx,           \* flat_to_chunk_index: argument flat_idx
    n_chunks_per_dim,   \* flat_to_chunk_index: argument n_chunks_per_dim
    refs_df,            \* the reference table (DataFrame)
    shape,              \* kerchunk_parquet_to_icechunk: argument shape
    chunks,             \* kerchunk_parquet_to_icechunk: argument chunks
    metadata,           \* create_icechunk_from_flat_parquet: argument metadata
    coords_in,          \* create_icechunk_from_flat_parquet: argument coords
    store,              \* the Icechunk store at output_path
    var_specs,          \* the converted entries, per variable
    written,            \* how many variables of var_specs have been written
    format,             \* the conversion line 170 selected, "" before it
    calls,              \* the conversion calls a caller made, with results
    dates,              \* main: the dates to virtualize, ascending
    workers,            \* main: args.workers
    futures,            \* main: the state of the task submitted for each date
    yielded,            \* main: the dates whose future as_completed has yielded
    results,            \* main: the dict results, items in insertion order
    printed,            \* main: the per-file lines printed
    ordered,            \* main: the list handed to xr.concat
    codec_config,       \* _unwrap_and_convert: argument codec_config
    conf,               \* _unwrap_and_convert: local conf
    orig,               \* _unwrap_and_convert: how the original converter ended
    codecs,             \* _patched_convert: the configurations of zarray.codecs
    v2_codecs,          \* _patched_convert: local v2_codecs
    codec_i,            \* _patched_convert: position of the for loop
    catalog,            \* zarr_catalog: CATALOG, a list of ZarrEntry
    ids,                \* zarr_catalog main: args.ids, as a set ({} when not given)
    skip_slow,          \* zarr_catalog main: args.skip_slow
    entries_to_probe,   \* zarr_catalog main: positions in CATALOG of the entries
    cur,                \* probe_xarray: position in CATALOG of argument entry
    kw,                 \* probe_xarray: local kw
    opened,             \* probe_xarray: the xarray call made to open the store
    exc,                \* probe_xarray: the exception caught, "" when none
    probed,             \* the calls of probe_xarray that returned, in order
    report,             \* print_report: the counts of its header line
    ret,                \* the value the call returned
    err                 \* the exception the call raised, "" when none

\* the variables only create_icechunk_from_flat_parquet uses
createVars == <<metadata, coords_in, store, var_specs, written, format>>

\* the variables only a sequence of conversion calls uses
sessionVars == <<calls>>

\* the variables only main of virtualizing-ghrsst-from-tiff.py uses
fanVars == <<dates, workers, futures, yielded, results, printed, ordered>>

\* the variables only _unwrap_and_convert uses
codecVars == <<codec_config, conf, orig>>

\* the variables only _patched_convert uses
patchVars == <<codecs, v2_codecs, codec_i>>

\* the variables only zarr_catalog.py uses
probeVars == <<catalog, ids, skip_slow, entries_to_probe, cur, kw, opened,
               exc, probed, report>>

\* the variables a single call of the converter does not use
auxVars == <<sessionVars, fanVars, codecVars, patchVars, probeVars>>

vars == <<pc, flat_idx, n_chunks_per_dim, refs_df, shape, chunks,
          createVars, auxVars, ret, err>>

-----------------------------------------------------------------------------
(* Bounds of the model *)

\* largest rank of a shape
MaxRank == 2
\* largest extent of one dimension of a shape, and largest chunk extent
MaxDim == 2
\* largest number of rows of a table
MaxRows == 4
\* largest number of rows of a table given to create_icechunk_from_flat_parquet
MaxCreateRows == 2
\* largest chunk count of one dimension given to flat_to_chunk_index directly
MaxCount == 3
\* flat indices given to flat_to_chunk_index directly lie in -MaxFlat..MaxFlat
MaxFlat == 9
\* rows of a table handed to explicit_parquet_to_icechunk (the table of
\* example 2, of 8 rows, is there besides)
MaxExplicitRows == 2
\* conversion calls a caller makes one after the other
MaxCalls == 3
\* files (dates) main virtualizes
MaxFiles == 3
\* threads of the pool (args.workers)
MaxWorkers == 2
\* imagecodecs wrappers nested around a codec configuration
MaxDepth == 3
\* entries of CATALOG
MaxEntries == 3
\* calls of probe_xarray a caller makes one after the other
MaxProbes == 2

-----------------------------------------------------------------------------
(* Python built-ins *)

\* reversed(s)
Reversed(s) == [j \in 1..Len(s) |-> s[Len(s) + 1 - j]]

\* zip(a, b): stops at the shorter argument
Zip(a, b) ==
    LET n == IF Len(a) < Len(b) THEN Len(a) ELSE Len(b)
    IN  [j \in 1..n |-> <<a[j], b[j]>>]

\* the product of the elements of s
RECURSIVE SeqProduct(_)
SeqProduct(s) == IF s = <<>> THEN 1 ELSE Head(s) * SeqProduct(Tail(s))

\* pd.isna(v) for a scalar
IsNa(v) == v = "NaN"

-----------------------------------------------------------------------------
(* flat_to_chunk_index *)

\* the loop `for n in reversed(n_chunks_per_dim)`: rn is the reversed tuple,
\* j the position of the next element, coords and remaining the locals
RECURSIVE FlatLoop(_, _, _, _)
FlatLoop(rn, j, coords, remaining) ==
    IF j > Len(rn) THEN coords
    ELSE FlatLoop(rn, j + 1, Append(coords, remaining % rn[j]),
                  remaining \div rn[j])

\* faulty variant: the accumulated coordinates are returned without reversed()
flat_to_chunk_index_noreverse(idx, n) ==
    FlatLoop(Reversed(n), 1, <<>>, idx)

flat_to_chunk_index(idx, n) ==
    Reversed(FlatLoop(Reversed(n), 1, <<>>, idx))

-----------------------------------------------------------------------------
(* kerchunk_parquet_to_icechunk *)

\* icechunk.VirtualChunkSpec(index=..., location=..., offset=..., length=...)
VirtualChunkSpec(index, location, offset, length) ==
    [index |-> index, location |-> location, offset |-> offset,
     length |-> length]

\* what a call gives its caller: the returned value, or the exception raised
Returned(v) == [ret |-> v, err |-> ""]
Raised(e) == [ret |-> <<>>, err |-> e]

\* faulty variant: the chunk count of a dimension is s // c + 1, not ceil(s / c)
NChunksPerDim_offbyone(s, c) ==
    [j \in 1..Len(Zip(s, c)) |-> (Zip(s, c)[j][1] \div Zip(s, c)[j][2]) + 1]

\* tuple((s + c - 1) // c for s, c in zip(shape, chunks))
NChunksPerDim(s, c) ==
    [j \in 1..Len(Zip(s, c)) |->
        (Zip(s, c)[j][1] + Zip(s, c)[j][2] - 1) \div Zip(s, c)[j][2]]

\* "size" if "size" in refs_df.columns else "length"
SizeCol(df) == IF "size" \in df.columns THEN "size" ELSE "length"

\* the loop `for i, row in refs_df.iterrows()`: p is the position of the next
\* row, i its label (df.index[p]), specs the list built so far.  row[c] of a
\* column the table lacks raises KeyError.  offset and size columns hold
\* integers, of which int() is the value itself.
RECURSIVE KerchunkLoop(_, _, _, _, _)
KerchunkLoop(df, n, size_col, p, specs) ==
    IF p > Len(df.rows) THEN Returned(specs)
    ELSE LET i == df.index[p]
             row == df.rows[p]
         IN  IF "path" \notin df.columns THEN Raised("KeyError")
             ELSE IF IsNa(row["path"])
                  THEN KerchunkLoop(df, n, size_col, p + 1, specs)
             ELSE IF "offset" \notin df.columns THEN Raised("KeyError")
             ELSE IF size_col \notin df.columns THEN Raised("KeyError")
             ELSE KerchunkLoop(df, n, size_col, p + 1,
                      Append(specs,
                          VirtualChunkSpec(flat_to_chunk_index(i, n),
                              row["path"], row["offset"], row[size_col])))

\* faulty variant: a table whose row count is not the number of chunks is
\* refused
kerchunk_parquet_to_icechunk_strict(df, s, c) ==
    IF Len(df.rows) # SeqProduct(NChunksPerDim(s, c))
    THEN Raised("ValueError")
    ELSE KerchunkLoop(df, NChunksPerDim(s, c), SizeCol(df), 1, <<>>)

\* faulty variant: specs is a list kept between calls, not a local one: the
\* entries of the call before are still in it
kerchunk_parquet_to_icechunk_shared(df, s, c) ==
    KerchunkLoop(df, NChunksPerDim(s, c), SizeCol(df), 1,
        IF calls # <<>> /\ calls[Len(calls)].fn = "kerchunk_parquet_to_icechunk"
        THEN calls[Len(calls)].ret ELSE <<>>)

kerchunk_parquet_to_icechunk(df, s, c) ==
    KerchunkLoop(df, NChunksPerDim(s, c), SizeCol(df), 1, <<>>)

-----------------------------------------------------------------------------
(* Column names.  A TLA+ string has no characters to look at, so the        *)
(* characters of every column name of the model are spelled out here; the  *)
(* tests the code makes on a name (startswith, isdigit, the order sorted()  *)
(* puts names in) are computed from them.                                   *)

ColumnChars ==
    [c \in {"path", "offset", "size", "length", "variable", "id",
            "i0", "i1", "i2", "i3", "i4", "i5", "i6", "i7", "i8", "i9",
            "i10"} |->
        CASE c = "path"     -> <<"p", "a", "t", "h">>
          [] c = "offset"   -> <<"o", "f", "f", "s", "e", "t">>
          [] c = "size"     -> <<"s", "i", "z", "e">>
          [] c = "length"   -> <<"l", "e", "n", "g", "t", "h">>
          [] c = "variable" -> <<"v", "a", "r", "i", "a", "b", "l", "e">>
          [] c = "id"       -> <<"i", "d">>
          [] c = "i0"       -> <<"i", "0">>
          [] c = "i1"       -> <<"i", "1">>
          [] c = "i2"       -> <<"i", "2">>
          [] c = "i3"       -> <<"i", "3">>
          [] c = "i4"       -> <<"i", "4">>
          [] c = "i5"       -> <<"i", "5">>
          [] c = "i6"       -> <<"i", "6">>
          [] c = "i7"       -> <<"i", "7">>
          [] c = "i8"       -> <<"i", "8">>
          [] c = "i9"       -> <<"i", "9">>
          [] c = "i10"      -> <<"i", "1", "0">>]

\* the characters of the names, in code point order
Alphabet ==
    <<"0", "1", "2", "3", "4", "5", "6", "7", "8", "9",
      "a", "b", "c", "d", "e", "f", "g", "h", "i", "j", "k", "l", "m",
      "n", "o", "p", "q", "r", "s", "t", "u", "v", "w", "x", "y", "z">>

\* the rank of a character in code point order
Ord(ch) == CHOOSE k \in 1..Len(Alphabet) : Alphabet[k] = ch

\* str.isdigit(): non-empty and every character a digit
IsDigit(cs) ==
    Len(cs) > 0 /\ \A k \in 1..Len(cs) : Ord(cs[k]) <= Ord("9")

\* a < b for Python strings: lexicographic by code point
RECURSIVE CharsLess(_, _)
CharsLess(a, b) ==
    IF b = <<>> THEN FALSE
    ELSE IF a = <<>> THEN TRUE
    ELSE IF Ord(Head(a)) # Ord(Head(b)) THEN Ord(Head(a)) < Ord(Head(b))
    ELSE CharsLess(Tail(a), Tail(b))

StrLess(a, b) == CharsLess(ColumnChars[a], ColumnChars[b])

\* sorted(S) for a set of distinct strings
RECURSIVE Sorted(_)
Sorted(S) ==
    IF S = {} THEN <<>>
    ELSE LET m == CHOOSE x \in S : \A y \in S \ {x} : StrLess(x, y)
         IN  <<m>> \o Sorted(S \ {m})

\* c.startswith("i") and c[1:].isdigit()
IsIndexCol(c) ==
    /\ Head(ColumnChars[c]) = "i"
    /\ IsDigit(Tail(ColumnChars[c]))

-----------------------------------------------------------------------------
(* explicit_parquet_to_icechunk *)

\* sorted([c for c in refs_df.columns if c.startswith("i") and c[1:].isdigit()])
IdxCols(df) == Sorted({c \in df.columns : IsIndexCol(c)})

\* refs_df["variable"].unique(): the values in order of first appearance
RECURSIVE Unique(_, _, _)
Unique(df, p, seen) ==
    IF p > Len(df.rows) THEN seen
    ELSE IF \E k \in 1..Len(seen) : seen[k] = df.rows[p]["variable"]
         THEN Unique(df, p + 1, seen)
         ELSE Unique(df, p + 1, Append(seen, df.rows[p]["variable"]))

\* refs_df["variable"] == var at one row: pandas' == is false wherever
\* either side is null
VarMask(row, var) ==
    /\ ~IsNa(var)
    /\ ~IsNa(row["variable"])
    /\ row["variable"] = var

\* faulty variant: no selection by variable, every row goes to every variable
RECURSIVE ExplicitRows_nofilter(_, _, _, _, _)
ExplicitRows_nofilter(df, idx_cols, var, p, specs) ==
    IF p > Len(df.rows) THEN Returned(specs)
    ELSE LET row == df.rows[p]
         IN  IF "path" \notin df.columns THEN Raised("KeyError")
             ELSE IF IsNa(row["path"])
                  THEN ExplicitRows_nofilter(df, idx_cols, var, p + 1, specs)
             ELSE IF "offset" \notin df.columns THEN Raised("KeyError")
             ELSE IF "length" \notin df.columns THEN Raised("KeyError")
             ELSE ExplicitRows_nofilter(df, idx_cols, var, p + 1,
                      Append(specs,
                          VirtualChunkSpec(
                              [k \in 1..Len(idx_cols) |-> row[idx_cols[k]]],
                              row["path"], row["offset"], row["length"])))

\* the loop `for _, row in var_df.iterrows()` over the rows of variable var
\* (var_df = refs_df[refs_df["variable"] == var]), in table order
RECURSIVE ExplicitRows(_, _, _, _, _)
ExplicitRows(df, idx_cols, var, p, specs) ==
    IF p > Len(df.rows) THEN Returned(specs)
    ELSE LET row == df.rows[p]
         IN  IF ~VarMask(row, var)
             THEN ExplicitRows(df, idx_cols, var, p + 1, specs)
             ELSE IF "path" \notin df.columns THEN Raised("KeyError")
             ELSE IF IsNa(row["path"])
                  THEN ExplicitRows(df, idx_cols, var, p + 1, specs)
             ELSE IF "offset" \notin df.columns THEN Raised("KeyError")
             ELSE IF "length" \notin df.columns THEN Raised("KeyError")
             ELSE ExplicitRows(df, idx_cols, var, p + 1,
                      Append(specs,
                          VirtualChunkSpec(
                              [k \in 1..Len(idx_cols) |-> row[idx_cols[k]]],
                              row["path"], row["offset"], row["length"])))

\* the loop `for var in refs_df["variable"].unique()`: result is the dict
\* built so far, a sequence of <<key, value>> in insertion order
RECURSIVE ExplicitVars(_, _, _, _, _)
ExplicitVars(df, idx_cols, vs, k, result) ==
    IF k > Len(vs) THEN Returned(result)
    ELSE LET r == ExplicitRows(df, idx_cols, vs[k], 1, <<>>)
         IN  IF r.err # "" THEN Raised(r.err)
             ELSE ExplicitVars(df, idx_cols, vs, k + 1,
                               Append(result, <<vs[k], r.ret>>))

explicit_parquet_to_icechunk(df) ==
    IF "variable" \notin df.columns THEN Raised("KeyError")
    ELSE ExplicitVars(df, IdxCols(df), Unique(df, 1, <<>>), 1, <<>>)

-----------------------------------------------------------------------------
(* create_icechunk_from_flat_parquet *)

\* metadata is a dict, modelled as the sequence of its items
\* [var, shape, chunks] in insertion order (dtype and dims are passed through
\* to zarr untouched)
HasKey(md, var) == \E k \in 1..Len(md) : md[k].var = var

\* metadata[var], for a key metadata has
Item(md, var) == md[CHOOSE k \in 1..Len(md) : md[k].var = var]

\* "variable" in df.columns
has_variable_col(df) == "variable" \in df.columns

\* faulty variant: any column beginning with i counts as an index column
has_index_cols_startswith(df) ==
    \E c \in df.columns : Head(ColumnChars[c]) = "i"

\* any(c.startswith("i") and c[1:].isdigit() for c in df.columns)
has_index_cols(df) == \E c \in df.columns : IsIndexCol(c)

\* the branch taken at `if has_variable_col and has_index_cols`
ExplicitFormat(df) == has_variable_col(df) /\ has_index_cols(df)

\* lines 190-197 for the first variable of metadata: the entries of the
\* table, as the one item of the dict the explicit conversion would return
ImplicitFirst(df, md) ==
    LET c == kerchunk_parquet_to_icechunk(df, md[1].shape, md[1].chunks)
    IN  IF c.err # "" THEN c ELSE Returned(<< <<md[1].var, c.ret>> >>)

\* faulty variant: with several variables in metadata, the first is taken
ImplicitConvert_first(df, md) ==
    IF Len(md) = 0 THEN Raised("ValueError") ELSE ImplicitFirst(df, md)

\* lines 185-197: the implicit conversion, for the one variable of metadata
ImplicitConvert(df, md) ==
    IF Len(md) # 1 THEN Raised("ValueError") ELSE ImplicitFirst(df, md)

\* the store after shutil.rmtree, Repository.create, zarr.open_group(mode="w")
\* and the creation of the coordinate arrays: a new repository, nothing
\* committed, holding one array per coordinate
NewStore(cs) ==
    [state |-> "new", arrays |-> {cs[k] : k \in 1..Len(cs)}, refs |-> <<>>,
     commits |-> 0]

-----------------------------------------------------------------------------
(* Input domains *)

\* tuples of rank 1..r with every component in 1..d
Tuples(r, d) == UNION {[1..k -> 1..d] : k \in 1..r}

\* tuples of rank 1..r whose components are all the same value of 1..d
UniformTuples(r, d) == {[j \in 1..k |-> v] : k \in 1..r, v \in 1..d}

\* every chunk extent is at most the extent of its dimension
ChunksWithinShape(s, c) ==
    \A j \in 1..Len(Zip(s, c)) : Zip(s, c)[j][2] <= Zip(s, c)[j][1]

EmptyDF == [columns |-> {}, index |-> <<>>, rows |-> <<>>]

\* the column sets of the tables given to the implicit conversion
ImplicitSchemas ==
    { {"path", "offset", "size"},
      {"path", "offset", "length"},
      {"path", "offset", "size", "length"},
      {"path", "offset"} }

\* the row labels of a table are those of a pandas RangeIndex(start, ., step):
\* the default index, the index left by df.iloc[1:], the one left by
\* df.iloc[::2]
RangeIndexes == { <<0, 1>>, <<1, 1>>, <<0, 2>> }

\* the row at position p (1-based): a hole (null path) or a reference whose
\* offset tells the rows apart
ImplicitRow(p, hole) ==
    IF hole THEN [path |-> "NaN", offset |-> 0, size |-> 0, length |-> 0]
    ELSE [path |-> "s3://bucket/f.nc", offset |-> 100 * p, size |-> 100,
          length |-> 60]

ImplicitTable(cols, ri, holes) ==
    [columns |-> cols,
     index   |-> [p \in 1..Len(holes) |-> ri[1] + (p - 1) * ri[2]],
     rows    |-> [p \in 1..Len(holes) |->
                    [c \in cols |-> ImplicitRow(p, holes[p])[c]]]]

ImplicitTables ==
    { ImplicitTable(cols, ri, holes) :
        cols \in ImplicitSchemas, ri \in RangeIndexes,
        holes \in UNION {[1..n -> BOOLEAN] : n \in 0..MaxRows} }

\* no store at output_path
NoStore == [state |-> "absent", arrays |-> {}, refs |-> <<>>, commits |-> 0]

\* the value of the variables of create_icechunk_from_flat_parquet in the
\* specifications that do not call it
NoCreate ==
    /\ metadata = <<>>
    /\ coords_in = <<>>
    /\ store = NoStore
    /\ var_specs = <<>>
    /\ written = 0
    /\ format = ""

\* main of virtualizing-ghrsst-from-tiff.py is not run
NoFanout ==
    /\ dates = <<>>
    /\ workers = 0
    /\ futures = <<>>
    /\ yielded = {}
    /\ results = <<>>
    /\ printed = <<>>
    /\ ordered = <<>>

\* _unwrap_and_convert is not called
NoCodec ==
    /\ codec_config = <<>>
    /\ orig = ""
    /\ conf = <<>>

\* _patched_convert is not called
NoPatch ==
    /\ codecs = <<>>
    /\ v2_codecs = <<>>
    /\ codec_i = 0

\* zarr_catalog.py is not run
NoProbe ==
    /\ catalog = <<>>
    /\ ids = {}
    /\ skip_slow = FALSE
    /\ entries_to_probe = <<>>
    /\ cur = 0
    /\ kw = <<>>
    /\ opened = ""
    /\ exc = ""
    /\ probed = <<>>
    /\ report = <<>>

\* no sequence of calls is under way, and neither are the others
NoAux ==
    /\ calls = <<>>
    /\ NoFanout
    /\ NoCodec
    /\ NoPatch
    /\ NoProbe

-----------------------------------------------------------------------------
(* Specification SpecFlat: one call of flat_to_chunk_index *)

InitFlat ==
    /\ pc = "call"
    /\ flat_idx \in (0 - MaxFlat)..MaxFlat
    /\ n_chunks_per_dim \in Tuples(MaxRank, MaxCount)
    /\ refs_df = EmptyDF
    /\ shape = <<>>
    /\ chunks = <<>>
    /\ NoCreate
    /\ NoAux
    /\ ret = <<>>
    /\ err = ""

CallFlat ==
    /\ pc = "call"
    /\ ret' = flat_to_chunk_index(flat_idx, n_chunks_per_dim)
    /\ pc' = "done"
    /\ UNCHANGED <<flat_idx, n_chunks_per_dim, refs_df, shape, chunks, err>>
    /\ UNCHANGED <<createVars, auxVars>>

NextFlat == CallFlat

SpecFlat == InitFlat /\ [][NextFlat]_vars

-----------------------------------------------------------------------------
(* Specification SpecImplicit: one call of kerchunk_parquet_to_icechunk *)

InitImplicit ==
    /\ pc = "call"
    /\ refs_df \in ImplicitTables
    /\ shape \in Tuples(MaxRank, MaxDim)
    /\ chunks \in UniformTuples(MaxRank + 1, MaxDim)
    /\ ChunksWithinShape(shape, chunks)
    /\ flat_idx = 0
    /\ n_chunks_per_dim = <<>>
    /\ NoCreate
    /\ NoAux
    /\ ret = <<>>
    /\ err = ""

CallImplicit ==
    /\ pc = "call"
    /\ LET r == kerchunk_parquet_to_icechunk(refs_df, shape, chunks)
       IN  /\ ret' = r.ret
           /\ err' = r.err
           /\ pc' = IF r.err = "" THEN "done" ELSE "raised"
    /\ UNCHANGED <<flat_idx, n_chunks_per_dim, refs_df, shape, chunks>>
    /\ UNCHANGED <<createVars, auxVars>>

NextImplicit == CallImplicit

SpecImplicit == InitImplicit /\ [][NextImplicit]_vars

-----------------------------------------------------------------------------
(* Specification SpecCreate: one call of create_icechunk_from_flat_parquet. *)
(* refs_df is the table pd.read_parquet returns.  The layouts in metadata   *)
(* are well formed (shape and chunks of one rank, chunks within shape):     *)
(* zarr's create_array, not this repository, decides what happens to the    *)
(* others.                                                                  *)

CreateLayouts ==
    { [shape |-> <<2, 2>>, chunks |-> <<1, 1>>],
      [shape |-> <<2, 2>>, chunks |-> <<2, 1>>],
      [shape |-> <<2>>,    chunks |-> <<1>>] }

\* no layout, one layout, or the same layout for two variables
Metadatas ==
    {<<>>}
    \cup { <<[var |-> "sst", shape |-> l.shape, chunks |-> l.chunks]>> :
             l \in CreateLayouts }
    \cup { <<[var |-> "sst", shape |-> l.shape, chunks |-> l.chunks],
             [var |-> "anom", shape |-> l.shape, chunks |-> l.chunks]>> :
             l \in CreateLayouts }

\* the column sets of the tables read from the parquet file
CreateSchemas ==
    { {"variable", "i0", "i1", "path", "offset", "length"},
      {"variable", "i0", "path", "offset", "length"},
      {"variable", "path", "offset", "length"},
      {"variable", "id", "path", "offset", "length"},
      {"i0", "path", "offset", "size"},
      {"path", "offset", "size"} }

\* the values an index column holds: 0 and 1 lie in the chunk grid of every
\* layout of CreateLayouts, 2 in none
IndexValues == {0, 1, 2}

\* what a row is made of: its variable, its index values, hole or not
RowKinds ==
    { k \in [variable : {"sst", "anom"}, i0 : IndexValues, i1 : IndexValues,
             hole : BOOLEAN] : k.hole => (k.i0 = 0 /\ k.i1 = 0) }

\* the row of kind k at position p (1-based)
CreateRow(k, p) ==
    [variable |-> k.variable, i0 |-> k.i0, i1 |-> k.i1, id |-> p,
     path   |-> IF k.hole THEN "NaN" ELSE "s3://bucket/f.nc",
     offset |-> IF k.hole THEN 0 ELSE 100 * p,
     size   |-> IF k.hole THEN 0 ELSE 100,
     length |-> IF k.hole THEN 0 ELSE 100]

\* a table with the default labels 0..n-1
CreateTable(cols, kinds) ==
    [columns |-> cols,
     index   |-> [p \in 1..Len(kinds) |-> p - 1],
     rows    |-> [p \in 1..Len(kinds) |->
                    [c \in cols |-> CreateRow(kinds[p], p)[c]]]]

CreateTables ==
    { CreateTable(cols, kinds) :
        cols \in CreateSchemas,
        kinds \in UNION {[1..n -> RowKinds] : n \in 0..MaxCreateRows} }

\* a store left at output_path by an earlier run
OldStore ==
    [state |-> "old", arrays |-> {"old"}, refs |-> <<>>, commits |-> 1]

InitCreate ==
    /\ pc = "call"
    /\ refs_df \in CreateTables
    /\ metadata \in Metadatas
    /\ coords_in \in {<<>>, <<"lat", "lon">>}
    /\ store \in {NoStore, OldStore}
    /\ var_specs = <<>>
    /\ written = 0
    /\ format = ""
    /\ NoAux
    /\ flat_idx = 0
    /\ n_chunks_per_dim = <<>>
    /\ shape = <<>>
    /\ chunks = <<>>
    /\ ret = <<>>
    /\ err = ""

\* lines 131-167: read the table, remove what is at output_path, create the
\* repository and the root group, create the coordinate arrays
CreateSetup ==
    /\ pc = "call"
    /\ store' = NewStore(coords_in)
    /\ pc' = "process"
    /\ UNCHANGED <<flat_idx, n_chunks_per_dim, refs_df, shape, chunks,
                   metadata, coords_in, var_specs, written, format, ret, err>>
    /\ UNCHANGED auxVars

\* lines 170-172 and 183-197: convert the table, with
\* explicit_parquet_to_icechunk, or with kerchunk_parquet_to_icechunk for the
\* one variable of metadata
CreateConvert ==
    /\ pc = "process"
    /\ format' = IF ExplicitFormat(refs_df) THEN "explicit" ELSE "implicit"
    /\ LET r == IF ExplicitFormat(refs_df)
                THEN explicit_parquet_to_icechunk(refs_df)
                ELSE ImplicitConvert(refs_df, metadata)
       IN  /\ var_specs' = r.ret
           /\ err' = r.err
           /\ pc' = IF r.err = "" THEN "write" ELSE "raised"
    /\ UNCHANGED <<flat_idx, n_chunks_per_dim, refs_df, shape, chunks,
                   metadata, coords_in, store, written, ret>>
    /\ UNCHANGED auxVars

\* lines 173-182 and 199-206, for the next variable: look its layout up in
\* metadata, create its array, hand its entries to set_virtual_refs
CreateWrite ==
    /\ pc = "write"
    /\ written < Len(var_specs)
    /\ LET var == var_specs[written + 1][1]
           specs == var_specs[written + 1][2]
       IN  IF ~HasKey(metadata, var)
           THEN /\ err' = "KeyError"
                /\ pc' = "raised"
                /\ UNCHANGED <<store, written>>
           ELSE /\ store' = [store EXCEPT
                                !.arrays = @ \cup {var},
                                !.refs = Append(@, <<var, specs>>)]
                /\ written' = written + 1
                /\ UNCHANGED <<pc, err>>
    /\ UNCHANGED <<flat_idx, n_chunks_per_dim, refs_df, shape, chunks,
                   metadata, coords_in, var_specs, format, ret>>
    /\ UNCHANGED auxVars

\* faulty variant: the session is committed before every variable is written
CreateCommit_early ==
    /\ pc = "write"
    /\ store' = [store EXCEPT !.commits = @ + 1]
    /\ ret' = <<"snapshot_id">>
    /\ pc' = "done"
    /\ UNCHANGED <<flat_idx, n_chunks_per_dim, refs_df, shape, chunks,
                   metadata, coords_in, var_specs, written, format, err>>
    /\ UNCHANGED auxVars

\* lines 208-209: commit the session and return the snapshot id
CreateCommit ==
    /\ pc = "write"
    /\ written = Len(var_specs)
    /\ store' = [store EXCEPT !.commits = @ + 1]
    /\ ret' = <<"snapshot_id">>
    /\ pc' = "done"
    /\ UNCHANGED <<flat_idx, n_chunks_per_dim, refs_df, shape, chunks,
                   metadata, coords_in, var_specs, written, format, err>>
    /\ UNCHANGED auxVars

NextCreate == CreateSetup \/ CreateConvert \/ CreateWrite \/ CreateCommit

SpecCreate == InitCreate /\ [][NextCreate]_vars

-----------------------------------------------------------------------------
(* Specification SpecExplicit: one call of explicit_parquet_to_icechunk.    *)

\* the column sets of the tables: ranks 2 and 1, a gap (i2 without i1), no
\* i0, no index column, no variable column, no length column, and rank 11
ExplicitSchemas ==
    { {"variable", "i0", "i1", "path", "offset", "length"},
      {"variable", "i0", "path", "offset", "length"},
      {"variable", "i0", "i2", "path", "offset", "length"},
      {"variable", "i1", "path", "offset", "length"},
      {"variable", "path", "offset", "length"},
      {"i0", "path", "offset", "length"},
      {"variable", "i0", "path", "offset"},
      {"variable", "i0", "i1", "i2", "i3", "i4", "i5", "i6", "i7", "i8",
       "i9", "i10", "path", "offset", "length"} }

\* what a row is made of: its variable (possibly null), its first two index
\* values, hole or not
ExplicitRowKinds ==
    { k \in [variable : {"sst", "anom", "NaN"}, i0 : {0, 1}, i1 : {0, 1},
             hole : BOOLEAN] : k.hole => (k.i0 = 0 /\ k.i1 = 0) }

\* the row of kind k at position p (1-based); column i<d> holds d for d >= 2
ExplicitRow(k, p) ==
    [variable |-> k.variable, i0 |-> k.i0, i1 |-> k.i1,
     i2 |-> 2, i3 |-> 3, i4 |-> 4, i5 |-> 5, i6 |-> 6, i7 |-> 7, i8 |-> 8,
     i9 |-> 9, i10 |-> 10,
     path   |-> IF k.hole THEN "NaN" ELSE "s3://bucket/f.nc",
     offset |-> IF k.hole THEN 0 ELSE 100 * p,
     length |-> IF k.hole THEN 0 ELSE 100]

\* a table with the default labels 0..n-1
ExplicitTable(cols, kinds) ==
    [columns |-> cols,
     index   |-> [p \in 1..Len(kinds) |-> p - 1],
     rows    |-> [p \in 1..Len(kinds) |->
                    [c \in cols |-> ExplicitRow(kinds[p], p)[c]]]]

\* explicit_df of example 2 (lines 240-247)
explicit_df ==
    ExplicitTable({"variable", "i0", "i1", "path", "offset", "length"},
        << [variable |-> "sst",  i0 |-> 0, i1 |-> 0, hole |-> FALSE],
           [variable |-> "sst",  i0 |-> 0, i1 |-> 1, hole |-> FALSE],
           [variable |-> "sst",  i0 |-> 1, i1 |-> 0, hole |-> FALSE],
           [variable |-> "sst",  i0 |-> 1, i1 |-> 1, hole |-> FALSE],
           [variable |-> "anom", i0 |-> 0, i1 |-> 0, hole |-> FALSE],
           [variable |-> "anom", i0 |-> 0, i1 |-> 1, hole |-> FALSE],
           [variable |-> "anom", i0 |-> 1, i1 |-> 0, hole |-> FALSE],
           [variable |-> "anom", i0 |-> 1, i1 |-> 1, hole |-> FALSE] >>)

ExplicitTables ==
    { ExplicitTable(cols, kinds) :
        cols \in ExplicitSchemas,
        kinds \in UNION {[1..n -> ExplicitRowKinds] : n \in 0..MaxExplicitRows} }
    \cup {explicit_df}

InitExplicit ==
    /\ pc = "call"
    /\ refs_df \in ExplicitTables
    /\ flat_idx = 0
    /\ n_chunks_per_dim = <<>>
    /\ shape = <<>>
    /\ chunks = <<>>
    /\ ret = <<>>
    /\ err = ""
    /\ NoCreate
    /\ NoAux

\* the call: ret is the dict returned, as the sequence of its items
\* <<variable, entries>> in insertion order
CallExplicit ==
    /\ pc = "call"
    /\ LET r == explicit_parquet_to_icechunk(refs_df)
       IN  /\ ret' = r.ret
           /\ err' = r.err
           /\ pc' = IF r.err = "" THEN "done" ELSE "raised"
    /\ UNCHANGED <<flat_idx, n_chunks_per_dim, refs_df, shape, chunks>>
    /\ UNCHANGED <<createVars, auxVars>>

NextExplicit == CallExplicit

SpecExplicit == InitExplicit /\ [][NextExplicit]_vars

-----------------------------------------------------------------------------
(* Specification SpecSession: a caller makes conversion calls one after     *)
(* the other, kerchunk_parquet_to_icechunk and explicit_parquet_to_icechunk *)
(* in any order, on tables it holds.  calls records each call: the         *)
(* function, its arguments and the outcome; refs_df is the table of the   *)
(* last call, as the call left it.                                        *)

\* the tables the caller holds for the implicit conversion: two references,
\* a hole before a reference, and a table without a length column
SessionImplicitTables ==
    { ImplicitTable({"path", "offset", "size"}, <<0, 1>>, <<FALSE, FALSE>>),
      ImplicitTable({"path", "offset", "size"}, <<0, 1>>, <<TRUE, FALSE>>),
      ImplicitTable({"path", "offset"}, <<0, 1>>, <<FALSE>>) }

\* the layouts the caller converts them with
SessionLayouts ==
    { [shape |-> <<2, 2>>, chunks |-> <<1, 1>>],
      [shape |-> <<2>>, chunks |-> <<1>>] }

\* the tables the caller holds for the explicit conversion: example 2, one
\* row, one row of a null variable, and a table without a variable column
SessionExplicitTables ==
    { explicit_df,
      ExplicitTable({"variable", "i0", "i1", "path", "offset", "length"},
          << [variable |-> "sst", i0 |-> 1, i1 |-> 0, hole |-> FALSE] >>),
      ExplicitTable({"variable", "i0", "i1", "path", "offset", "length"},
          << [variable |-> "NaN", i0 |-> 0, i1 |-> 0, hole |-> FALSE] >>),
      ExplicitTable({"i0", "path", "offset", "length"},
          << [variable |-> "sst", i0 |-> 0, i1 |-> 0, hole |-> FALSE] >>) }

InitSession ==
    /\ pc = "idle"
    /\ calls = <<>>
    /\ refs_df = EmptyDF
    /\ shape = <<>>
    /\ chunks = <<>>
    /\ flat_idx = 0
    /\ n_chunks_per_dim = <<>>
    /\ ret = <<>>
    /\ err = ""
    /\ NoCreate
    /\ NoFanout
    /\ NoCodec
    /\ NoPatch
    /\ NoProbe

\* one call of kerchunk_parquet_to_icechunk: the function assigns to no
\* global and to no cell of refs_df
SessionKerchunk ==
    /\ pc = "idle"
    /\ Len(calls) < MaxCalls
    /\ \E df \in SessionImplicitTables, l \in SessionLayouts :
         LET r == kerchunk_parquet_to_icechunk(df, l.shape, l.chunks)
         IN  /\ refs_df' = df
             /\ shape' = l.shape
             /\ chunks' = l.chunks
             /\ ret' = r.ret
             /\ err' = r.err
             /\ calls' = Append(calls,
                    [fn |-> "kerchunk_parquet_to_icechunk", df |-> df,
                     shape |-> l.shape, chunks |-> l.chunks,
                     ret |-> r.ret, err |-> r.err])
    /\ UNCHANGED <<pc, flat_idx, n_chunks_per_dim, createVars>>
    /\ UNCHANGED <<fanVars, codecVars, patchVars, probeVars>>

\* one call of explicit_parquet_to_icechunk: likewise
SessionExplicit ==
    /\ pc = "idle"
    /\ Len(calls) < MaxCalls
    /\ \E df \in SessionExplicitTables :
         LET r == explicit_parquet_to_icechunk(df)
         IN  /\ refs_df' = df
             /\ ret' = r.ret
             /\ err' = r.err
             /\ calls' = Append(calls,
                    [fn |-> "explicit_parquet_to_icechunk", df |-> df,
                     shape |-> <<>>, chunks |-> <<>>,
                     ret |-> r.ret, err |-> r.err])
    /\ UNCHANGED <<pc, flat_idx, n_chunks_per_dim, shape, chunks, createVars>>
    /\ UNCHANGED <<fanVars, codecVars, patchVars, probeVars>>

NextSession == SessionKerchunk \/ SessionExplicit

SpecSession == InitSession /\ [][NextSession]_vars

-----------------------------------------------------------------------------
(* Specification SpecFanout: main of                                        *)
(* zarr/virtual-tiff/output/virtualizing-ghrsst-from-tiff.py, lines 152-180.*)
(* A date is the number of its day.  futures is the dict of line 156, in    *)
(* submission order: item k is the future of dates[k], with the state of    *)
(* its task: pending (queued in the pool), running, ok (finished with a     *)
(* dataset) or exc (finished with an exception).  results is the dict of    *)
(* line 153, as the sequence of its items in insertion order.               *)

\* what virtualize_one returns for a date: the dataset with that time
virtualize_one(date) == [time |-> date]

\* sorted(S) for a set of dates
RECURSIVE SortedDates(_)
SortedDates(S) ==
    IF S = {} THEN <<>>
    ELSE LET m == CHOOSE x \in S : \A y \in S : x <= y
         IN  <<m>> \o SortedDates(S \ {m})

\* results.keys()
Keys(res) == { res[k].key : k \in 1..Len(res) }

\* results[d], for a key d of results
Lookup(res, d) == res[CHOOSE k \in 1..Len(res) : res[k].key = d].value

\* faulty variant: the datasets in the order they were collected
OrderedResults_insertion(res) == [k \in 1..Len(res) |-> res[k].value]

\* line 174: [results[d] for d in sorted(results.keys())]
OrderedResults(res) ==
    [k \in 1..Len(res) |-> Lookup(res, SortedDates(Keys(res))[k])]

\* the positions of the futures in state st
InState(st) == { k \in 1..Len(futures) : futures[k].state = st }

InitFanout ==
    /\ pc = "submit"
    /\ dates \in { [k \in 1..n |-> k] : n \in 1..MaxFiles }
    /\ workers \in 1..MaxWorkers
    /\ futures = <<>>
    /\ yielded = {}
    /\ results = <<>>
    /\ printed = <<>>
    /\ ordered = <<>>
    /\ refs_df = EmptyDF
    /\ shape = <<>>
    /\ chunks = <<>>
    /\ flat_idx = 0
    /\ n_chunks_per_dim = <<>>
    /\ ret = <<>>
    /\ err = ""
    /\ calls = <<>>
    /\ NoCreate
    /\ NoCodec
    /\ NoPatch
    /\ NoProbe

\* lines 156-159: pool.submit for the next date
Submit ==
    /\ pc = "submit"
    /\ Len(futures) < Len(dates)
    /\ futures' = Append(futures,
                     [date |-> dates[Len(futures) + 1], state |-> "pending"])
    /\ UNCHANGED <<pc, dates, workers, yielded, results, printed, ordered>>
    /\ UNCHANGED <<flat_idx, n_chunks_per_dim, refs_df, shape, chunks,
                   createVars, sessionVars, codecVars, patchVars, probeVars, ret, err>>

\* a thread of the pool that is free takes the task queued first
StartTask ==
    /\ InState("pending") # {}
    /\ Cardinality(InState("running")) < workers
    /\ LET k == CHOOSE x \in InState("pending") :
                   \A y \in InState("pending") : x <= y
       IN  futures' = [futures EXCEPT ![k].state = "running"]
    /\ UNCHANGED <<pc, dates, workers, yielded, results, printed, ordered>>
    /\ UNCHANGED <<flat_idx, n_chunks_per_dim, refs_df, shape, chunks,
                   createVars, sessionVars, codecVars, patchVars, probeVars, ret, err>>

\* faulty variant: the worker thread itself stores its dataset in results
FinishTask_shared ==
    /\ \E k \in InState("running"), st \in {"ok", "exc"} :
         /\ futures' = [futures EXCEPT ![k].state = st]
         /\ results' = IF st = "ok"
                        THEN Append(results,
                                 [key |-> futures[k].date,
                                  value |-> virtualize_one(futures[k].date)])
                        ELSE results
    /\ UNCHANGED <<pc, dates, workers, yielded, printed, ordered>>
    /\ UNCHANGED <<flat_idx, n_chunks_per_dim, refs_df, shape, chunks,
                   createVars, sessionVars, codecVars, patchVars, probeVars, ret, err>>

\* lines 131-135: a running virtualize_one returns its dataset, or raises
FinishTask ==
    /\ \E k \in InState("running"), st \in {"ok", "exc"} :
         futures' = [futures EXCEPT ![k].state = st]
    /\ UNCHANGED <<pc, dates, workers, yielded, results, printed, ordered>>
    /\ UNCHANGED <<flat_idx, n_chunks_per_dim, refs_df, shape, chunks,
                   createVars, sessionVars, codecVars, patchVars, probeVars, ret, err>>

\* faulty variant: no try/except around future.result(), the exception of a
\* failed task ends main
Collect_noexcept ==
    /\ pc = "submit"
    /\ Len(futures) = Len(dates)
    /\ \E k \in (InState("ok") \cup InState("exc")) \ yielded :
         /\ yielded' = yielded \cup {k}
         /\ IF futures[k].state = "ok"
            THEN /\ results' = Append(results,
                        [key |-> futures[k].date,
                         value |-> virtualize_one(futures[k].date)])
                 /\ printed' = Append(printed,
                        [line |-> "done", date |-> futures[k].date])
                 /\ UNCHANGED <<pc, err>>
            ELSE /\ pc' = "raised"
                 /\ err' = "Exception"
                 /\ UNCHANGED <<results, printed>>
    /\ UNCHANGED <<dates, workers, futures, ordered>>
    /\ UNCHANGED <<flat_idx, n_chunks_per_dim, refs_df, shape, chunks,
                   createVars, sessionVars, codecVars, patchVars, probeVars, ret>>

\* lines 160-166: as_completed yields a finished future not yielded yet;
\* its dataset is stored under its date, or its failure is printed with its
\* date
Collect ==
    /\ pc = "submit"
    /\ Len(futures) = Len(dates)
    /\ \E k \in (InState("ok") \cup InState("exc")) \ yielded :
         /\ yielded' = yielded \cup {k}
         /\ IF futures[k].state = "ok"
            THEN /\ results' = Append(results,
                        [key |-> futures[k].date,
                         value |-> virtualize_one(futures[k].date)])
                 /\ printed' = Append(printed,
                        [line |-> "done", date |-> futures[k].date])
            ELSE /\ printed' = Append(printed,
                        [line |-> "FAILED", date |-> futures[k].date])
                 /\ UNCHANGED results
    /\ UNCHANGED <<pc, dates, workers, futures, ordered>>
    /\ UNCHANGED <<flat_idx, n_chunks_per_dim, refs_df, shape, chunks,
                   createVars, sessionVars, codecVars, patchVars, probeVars, ret, err>>

\* as_completed is exhausted and the with block is left
ExitPool ==
    /\ pc = "submit"
    /\ Len(futures) = Len(dates)
    /\ yielded = 1..Len(futures)
    /\ pc' = "summary"
    /\ UNCHANGED fanVars
    /\ UNCHANGED <<flat_idx, n_chunks_per_dim, refs_df, shape, chunks,
                   createVars, sessionVars, codecVars, patchVars, probeVars, ret, err>>

\* lines 168-170: the summary line divides by len(results)
Summary ==
    /\ pc = "summary"
    /\ IF Len(results) = 0
       THEN pc' = "raised" /\ err' = "ZeroDivisionError"
       ELSE pc' = "combine" /\ UNCHANGED err
    /\ UNCHANGED fanVars
    /\ UNCHANGED <<flat_idx, n_chunks_per_dim, refs_df, shape, chunks,
                   createVars, sessionVars, codecVars, patchVars, probeVars, ret>>

\* lines 174-175: the datasets in date order, handed to xr.concat
Combine ==
    /\ pc = "combine"
    /\ ordered' = OrderedResults(results)
    /\ pc' = "write"
    /\ UNCHANGED <<dates, workers, futures, yielded, results, printed>>
    /\ UNCHANGED <<flat_idx, n_chunks_per_dim, refs_df, shape, chunks,
                   createVars, sessionVars, codecVars, patchVars, probeVars, ret, err>>

\* line 180: the combined dataset is written
WriteRefs ==
    /\ pc = "write"
    /\ pc' = "done"
    /\ UNCHANGED fanVars
    /\ UNCHANGED <<flat_idx, n_chunks_per_dim, refs_df, shape, chunks,
                   createVars, sessionVars, codecVars, patchVars, probeVars, ret, err>>

NextFanout ==
    \/ Submit
    \/ StartTask
    \/ FinishTask
    \/ Collect
    \/ ExitPool
    \/ Summary
    \/ Combine
    \/ WriteRefs

SpecFanout == InitFanout /\ [][NextFanout]_vars

-----------------------------------------------------------------------------
(* Specification SpecCodec: one call of _unwrap_and_convert                 *)
(* (virtualizing-ghrsst-from-tiff.py, lines 40-62), one action per step.    *)
(* A Python value is a record tagged with its type: t = "dict" with the     *)
(* dict as the record d (its keys are DOMAIN d), t = "none" for None,       *)
(* t = "str" for a string, t = "v2" for what the original converter         *)
(* returned for the value of field of.  The values under the keys name and  *)
(* id are plain strings.                                                    *)

Dict(d) == [t |-> "dict", d |-> d]
None == [t |-> "none"]
Str(v) == [t |-> "str", v |-> v]

\* isinstance(v, dict)
IsDict(v) == v.t = "dict"

\* isinstance(v, dict) and key in v
HasItem(v, key) == IsDict(v) /\ key \in DOMAIN v.d

\* v.get(key, default), for a dict v
Get(v, key, default) == IF key \in DOMAIN v.d THEN v.d[key] ELSE default

\* the characters of the codec names of the model
CodecNameChars ==
    [n \in {"", "zstd", "bytes", "BytesCodec", "HorizontalDeltaCodec",
            "imagecodecs", "imagecodecs_zstd"} |->
        CASE n = "" -> <<>>
          [] n = "zstd" -> <<"z", "s", "t", "d">>
          [] n = "bytes" -> <<"b", "y", "t", "e", "s">>
          [] n = "BytesCodec" ->
                <<"B", "y", "t", "e", "s", "C", "o", "d", "e", "c">>
          [] n = "HorizontalDeltaCodec" ->
                <<"H", "o", "r", "i", "z", "o", "n", "t", "a", "l",
                  "D", "e", "l", "t", "a", "C", "o", "d", "e", "c">>
          [] n = "imagecodecs" ->
                <<"i", "m", "a", "g", "e", "c", "o", "d", "e", "c", "s">>
          [] n = "imagecodecs_zstd" ->
                <<"i", "m", "a", "g", "e", "c", "o", "d", "e", "c", "s", "_",
                  "z", "s", "t", "d">>]

\* n.startswith("imagecodecs_")
StartsWithImagecodecs(n) ==
    LET prefix == <<"i", "m", "a", "g", "e", "c", "o", "d", "e", "c", "s", "_">>
        cs == CodecNameChars[n]
    IN  /\ Len(cs) >= Len(prefix)
        /\ SubSeq(cs, 1, Len(prefix)) = prefix

\* the values found innermost: the flat zstd configuration, a named
\* configuration without wrapper, an empty dict, None, a string
CodecLeaves ==
    { Dict([id |-> "zstd", level |-> 9]),
      Dict([id |-> "zstd", name |-> "imagecodecs_zstd"]),
      Dict(<<>>),
      None,
      Str("zstd") }

\* the names of the dicts that wrap a configuration
WrapperNames == {"imagecodecs_zstd", "imagecodecs", "zstd"}

\* the values with exactly k dicts nested around a leaf through the key
\* configuration
RECURSIVE Nested(_)
Nested(k) ==
    IF k = 0 THEN CodecLeaves
    ELSE { Dict([id |-> "zstd", name |-> n, configuration |-> c]) :
             n \in WrapperNames, c \in Nested(k - 1) }

\* the codecs that are not numcodecs filters
ZarrInternalCodecs ==
    { Dict([name |-> "bytes"]),
      Dict([name |-> "BytesCodec"]),
      Dict([name |-> "HorizontalDeltaCodec"]),
      Dict([id |-> "bytes"]) }

CodecConfigs ==
    UNION { Nested(k) : k \in 0..MaxDepth } \cup ZarrInternalCodecs

\* the wrapped zstd configuration of lines 24-28
WrappedZstd ==
    Dict([id |-> "zstd", name |-> "imagecodecs_zstd", configuration |->
      Dict([id |-> "zstd", name |-> "imagecodecs_zstd", configuration |->
        Dict([id |-> "zstd", name |-> "imagecodecs_zstd", configuration |->
          Dict([id |-> "zstd", level |-> 9])])])])

InitCodec ==
    /\ pc = "call"
    /\ codec_config \in CodecConfigs
    /\ conf = None
    /\ orig = ""
    /\ ret = None
    /\ err = ""
    /\ refs_df = EmptyDF
    /\ shape = <<>>
    /\ chunks = <<>>
    /\ flat_idx = 0
    /\ n_chunks_per_dim = <<>>
    /\ calls = <<>>
    /\ NoCreate
    /\ NoFanout
    /\ NoPatch
    /\ NoProbe

\* lines 41-43: conf = codec_config, and the test for an imagecodecs wrapper
UnwrapEnter ==
    /\ pc = "call"
    /\ conf' = codec_config
    /\ pc' = IF IsDict(codec_config)
                 /\ StartsWithImagecodecs(Get(codec_config, "name", ""))
              THEN "while" ELSE "skip"
    /\ orig' = ""
    /\ UNCHANGED <<codec_config, ret, err>>
    /\ UNCHANGED <<flat_idx, n_chunks_per_dim, refs_df, shape, chunks,
                   createVars, sessionVars, fanVars, patchVars, probeVars>>

\* faulty variant: the loop returns the configuration of the outermost
\* wrapper
UnwrapLoop_onelevel ==
    /\ pc = "while"
    /\ IF HasItem(conf, "configuration")
       THEN ret' = conf.d["configuration"]
       ELSE ret' = conf
    /\ pc' = "done"
    /\ UNCHANGED <<codec_config, conf, orig, err>>
    /\ UNCHANGED <<flat_idx, n_chunks_per_dim, refs_df, shape, chunks,
                   createVars, sessionVars, fanVars, patchVars, probeVars>>

\* lines 44-50: one test of the while condition, and the iteration or the
\* return that follows it
UnwrapLoop ==
    /\ pc = "while"
    /\ IF HasItem(conf, "configuration")
       THEN LET inner == conf.d["configuration"]
            IN  IF HasItem(inner, "configuration")
                THEN /\ conf' = inner
                     /\ UNCHANGED <<pc, ret>>
                ELSE /\ ret' = inner
                     /\ pc' = "done"
                     /\ UNCHANGED conf
       ELSE /\ ret' = conf
            /\ pc' = "done"
            /\ UNCHANGED conf
    /\ UNCHANGED <<codec_config, orig, err>>
    /\ UNCHANGED <<flat_idx, n_chunks_per_dim, refs_df, shape, chunks,
                   createVars, sessionVars, fanVars, patchVars, probeVars>>

\* lines 52-56: the codecs that are not numcodecs filters give None
UnwrapSkip ==
    /\ pc = "skip"
    /\ IF /\ IsDict(conf)
          /\ \/ Get(conf, "name", "") \in
                    {"HorizontalDeltaCodec", "BytesCodec", "bytes"}
             \/ Get(conf, "id", "") \in {"bytes"}
       THEN ret' = None /\ pc' = "done"
       ELSE pc' = "convert" /\ UNCHANGED ret
    /\ UNCHANGED <<codec_config, conf, orig, err>>
    /\ UNCHANGED <<flat_idx, n_chunks_per_dim, refs_df, shape, chunks,
                   createVars, sessionVars, fanVars, patchVars, probeVars>>

\* lines 57-62: the original converter, a function of virtualizarr, returns
\* a value or raises; a KeyError or TypeError is caught
UnwrapConvert ==
    /\ pc = "convert"
    /\ \E outcome \in {"returns", "KeyError", "TypeError", "ValueError"} :
         /\ orig' = outcome
         /\ CASE outcome = "returns" ->
                   /\ ret' = [t |-> "v2", of |-> conf]
                   /\ pc' = "done"
                   /\ UNCHANGED err
              [] outcome \in {"KeyError", "TypeError"} ->
                   /\ ret' = IF HasItem(conf, "id") THEN conf ELSE None
                   /\ pc' = "done"
                   /\ UNCHANGED err
              [] OTHER ->
                   /\ err' = outcome
                   /\ pc' = "raised"
                   /\ UNCHANGED ret
    /\ UNCHANGED <<codec_config, conf>>
    /\ UNCHANGED <<flat_idx, n_chunks_per_dim, refs_df, shape, chunks,
                   createVars, sessionVars, fanVars, patchVars, probeVars>>

NextCodec == UnwrapEnter \/ UnwrapLoop \/ UnwrapSkip \/ UnwrapConvert

\* the call is run to its end: the interpreter keeps taking steps
SpecCodec == InitCodec /\ [][NextCodec]_vars /\ WF_vars(NextCodec)

-----------------------------------------------------------------------------
(* virtualizing-ghrsst-from-tiff.py: _patched_convert, which calls          *)
(* _unwrap_and_convert (patched into virtualizarr.utils at line 66) on the  *)
(* configuration of every codec of the array.  A codec is modelled by the   *)
(* configuration get_codec_config gives for it; the ArrayV2Metadata is a    *)
(* record of its compressor and filters (shape, dtype, chunks and order     *)
(* are passed through); fill_value is a float written as a string.          *)

MaxCodecs == 3

List(items) == [t |-> "list", items |-> items]

\* the codec configurations of the arrays: an internal codec by name and by
\* id, a flat zstd, a wrapped zstd, a dict with a configuration and no
\* imagecodecs_ name, an empty dict, a string
PatchCodecs ==
    { Dict([name |-> "bytes"]),
      Dict([name |-> "HorizontalDeltaCodec"]),
      Dict([id |-> "bytes"]),
      Dict([id |-> "zstd", level |-> 9]),
      WrappedZstd,
      Dict([id |-> "zstd", name |-> "zstd", configuration |->
              Dict([id |-> "zstd", level |-> 9])]),
      Dict(<<>>),
      Str("zstd") }

RECURSIVE SeqsOf(_, _)
SeqsOf(S, n) ==
    IF n = 0 THEN {<<>>}
    ELSE SeqsOf(S, n - 1) \cup
         { Append(q, x) : q \in { r \in SeqsOf(S, n - 1) : Len(r) = n - 1 },
                          x \in S }

\* zarray.fill_value
FillValues == {"0.0", "nan"}

InitPatch ==
    /\ pc = "for"
    /\ codecs \in SeqsOf(PatchCodecs, MaxCodecs)
    /\ v2_codecs = <<>>
    /\ codec_i = 0
    /\ codec_config = None
    /\ conf = None
    /\ orig = ""
    /\ ret = None
    /\ err = ""
    /\ refs_df = EmptyDF
    /\ shape = <<>>
    /\ chunks = <<>>
    /\ flat_idx = 0
    /\ n_chunks_per_dim = <<>>
    /\ calls = <<>>
    /\ NoCreate
    /\ NoFanout
    /\ NoProbe

\* lines 77-79: the next codec of zarray.codecs, its configuration, and the
\* call of zarr_codec_config_to_v2, which is _unwrap_and_convert
PatchFor ==
    /\ pc = "for"
    /\ codec_i < Len(codecs)
    /\ codec_i' = codec_i + 1
    /\ codec_config' = codecs[codec_i + 1]
    /\ pc' = "call"
    /\ UNCHANGED <<codecs, v2_codecs, conf, orig, ret, err>>
    /\ UNCHANGED <<flat_idx, n_chunks_per_dim, refs_df, shape, chunks,
                   createVars, sessionVars, fanVars, probeVars>>

\* faulty variant: every result is appended, None too
PatchAppend_keepnone ==
    /\ pc = "done"
    /\ v2_codecs' = Append(v2_codecs, ret)
    /\ pc' = "for"
    /\ UNCHANGED <<codecs, codec_i, codecVars, ret, err>>
    /\ UNCHANGED <<flat_idx, n_chunks_per_dim, refs_df, shape, chunks,
                   createVars, sessionVars, fanVars, probeVars>>

\* lines 80-81: a result that is not None is appended
PatchAppend ==
    /\ pc = "done"
    /\ v2_codecs' = IF ret # None THEN Append(v2_codecs, ret) ELSE v2_codecs
    /\ pc' = "for"
    /\ UNCHANGED <<codecs, codec_i, codecVars, ret, err>>
    /\ UNCHANGED <<flat_idx, n_chunks_per_dim, refs_df, shape, chunks,
                   createVars, sessionVars, fanVars, probeVars>>

\* lines 82-92: compressor and filters, int(zarray.fill_value), which
\* raises ValueError for nan, and the ArrayV2Metadata returned
PatchReturn ==
    /\ pc = "for"
    /\ codec_i = Len(codecs)
    /\ LET compressor == IF v2_codecs # <<>>
                         THEN v2_codecs[Len(v2_codecs)] ELSE None
           filters == IF Len(v2_codecs) > 1
                      THEN List(SubSeq(v2_codecs, 1, Len(v2_codecs) - 1))
                      ELSE None
       IN  \E fill_value \in FillValues :
             IF fill_value = "nan"
             THEN /\ err' = "ValueError"
                  /\ pc' = "raised"
                  /\ UNCHANGED ret
             ELSE /\ ret' = [t |-> "ArrayV2Metadata",
                             compressor |-> compressor,
                             filters |-> filters]
                  /\ pc' = "returned"
                  /\ UNCHANGED err
    /\ UNCHANGED <<patchVars, codecVars>>
    /\ UNCHANGED <<flat_idx, n_chunks_per_dim, refs_df, shape, chunks,
                   createVars, sessionVars, fanVars, probeVars>>

NextPatch ==
    \/ PatchFor
    \/ UnwrapEnter
    \/ UnwrapLoop
    \/ UnwrapSkip
    \/ UnwrapConvert
    \/ PatchAppend
    \/ PatchReturn

SpecPatch == InitPatch /\ [][NextPatch]_vars

-----------------------------------------------------------------------------
(* zarr-examples/public-zarr-catalog/zarr_catalog.py: probe_xarray, one     *)
(* action per step, print_report, and main.  A ZarrEntry is a record of     *)
(* its fields (name, provider, access_protocol and description, which       *)
(* nothing here reads or writes, are left out); a dict is a record; notes   *)
(* is the sequence of the pieces appended to it; elapsed_s counts whole     *)
(* seconds.                                                                 *)

\* ZarrEntry(...), with the defaults of lines 47-50
ZarrEntry(id, zarr_version, store_url, open_kwargs, variable_hint, notes, gdal_dsn) ==
    [id |-> id, zarr_version |-> zarr_version, store_url |-> store_url,
     open_kwargs |-> open_kwargs, variable_hint |-> variable_hint,
     notes |-> notes, gdal_dsn |-> gdal_dsn,
     status |-> "untested", elapsed_s |-> 0, error |-> "",
     dims_found |-> <<>>]

\* four of the entries of CATALOG (lines 58-69, 132-143, 197-219, 398-410)
ModelCatalog ==
    << ZarrEntry("pangeo-gpcp", "V2", "https://ncsa.osn.xsede.org/gpcp.zarr",
                 [consolidated |-> TRUE, chunks |-> "{}"], "precip", <<>>,
                 "ZARR:/vsicurl/https://ncsa.osn.xsede.org/gpcp.zarr"),
       ZarrEntry("oisst-kerchunk", "kerchunk-json",
                 "https://ncsa.osn.xsede.org/reference.json",
                 [engine |-> "zarr", backend_kwargs |-> "dict(...)",
                  chunks |-> "{}"], "sst", <<"Uses reference:// protocol.">>,
                 ""),
       ZarrEntry("arco-era5-v3", "V2", "gs://gcp-public-data-arco-era5/ar",
                 [chunks |-> "{}"], "2m_temperature",
                 <<"Very slow to open metadata.">>, ""),
       ZarrEntry("nex-gddp-cmip6", "V2", "s3://nex-gddp-cmip6/tasmax.nc",
                 [engine |-> "h5netcdf", chunks |-> "{}",
                  storage_options |-> "dict(anon=True)"], "tasmax",
                 <<"Not a Zarr store itself.">>, "") >>

\* CATALOG: the first entries of ModelCatalog
Catalogs == { SubSeq(ModelCatalog, 1, n) : n \in 1..MaxEntries }

\* args.ids: not given, or ids of the catalog and one that is not
IdsArgs ==
    { {}, {"pangeo-gpcp", "arco-era5-v3"}, {"oisst-kerchunk", "no-such-id"} }

\* line 678
slow_ids == {"arco-era5-single-level", "arco-era5-v3"}

\* zarr_version.startswith("kerchunk"), for the versions of line 39
IsKerchunk(zarr_version) ==
    zarr_version \in {"kerchunk-json", "kerchunk-parquet"}

\* d.pop(key, None): the dict without key
Popped(d, key) == [k \in (DOMAIN d) \ {key} |-> d[k]]

\* the values round(time.time() - t0, 2) takes
ElapsedValues == {0, 1}

\* the exceptions opening or inspecting a store raises, as
\* f"{type(exc).__name__}: {exc}" formats them
ProbeErrors == {"OSError: unreachable", "KeyError: 'time'"}

\* lines 679-683: the positions in CATALOG of the entries to probe
Selected(cat, idset, skip) ==
    SelectSeq([k \in 1..Len(cat) |-> k],
              LAMBDA k : /\ (idset # {} => cat[k].id \in idset)
                         /\ (skip => cat[k].id \notin slow_ids))

\* lines 549-553: the counts of the header of the report, and the ids of
\* the entries listed
print_report(cat) ==
    [ok       |-> Cardinality({k \in 1..Len(cat) : cat[k].status = "ok"}),
     error    |-> Cardinality({k \in 1..Len(cat) : cat[k].status = "error"}),
     untested |-> Cardinality({k \in 1..Len(cat) : cat[k].status = "untested"}),
     listed   |-> [k \in 1..Len(cat) |-> cat[k].id]]

\* the part of the state zarr_catalog.py does not use
NotProbe ==
    /\ refs_df = EmptyDF
    /\ shape = <<>>
    /\ chunks = <<>>
    /\ flat_idx = 0
    /\ n_chunks_per_dim = <<>>
    /\ ret = <<>>
    /\ err = ""
    /\ calls = <<>>
    /\ NoCreate
    /\ NoFanout
    /\ NoCodec
    /\ NoPatch

\* the variables zarr_catalog.py does not use, but for err
notProbeVars ==
    <<flat_idx, n_chunks_per_dim, refs_df, shape, chunks, createVars,
      sessionVars, fanVars, codecVars, patchVars, ret>>

\* faulty variant: kw is entry.open_kwargs itself, not a copy of it
ProbeOpen_alias ==
    /\ pc = "open"
    /\ LET entry == catalog[cur]
           engine == IF "engine" \in DOMAIN entry.open_kwargs
                     THEN entry.open_kwargs["engine"] ELSE ""
       IN  /\ kw' = Popped(Popped(entry.open_kwargs, "engine"), "backend_kwargs")
           /\ catalog' = [catalog EXCEPT ![cur].open_kwargs = kw']
           /\ opened' = IF IsKerchunk(entry.zarr_version) THEN "reference://"
                         ELSE IF engine # "" /\ engine # "zarr"
                              THEN "open_dataset"
                              ELSE "open_zarr"
           /\ \/ pc' = "inspect" /\ UNCHANGED exc
              \/ \E e \in ProbeErrors : exc' = e /\ pc' = "except"
    /\ UNCHANGED <<ids, skip_slow, entries_to_probe, cur, probed, report>>
    /\ UNCHANGED <<notProbeVars, err>>

\* lines 488-510: kw is a copy of entry.open_kwargs without engine and
\* backend_kwargs; the store is opened with the call the entry asks for,
\* which returns a dataset or raises
ProbeOpen ==
    /\ pc = "open"
    /\ LET entry == catalog[cur]
           engine == IF "engine" \in DOMAIN entry.open_kwargs
                     THEN entry.open_kwargs["engine"] ELSE ""
       IN  /\ kw' = Popped(Popped(entry.open_kwargs, "engine"), "backend_kwargs")
           /\ opened' = IF IsKerchunk(entry.zarr_version) THEN "reference://"
                         ELSE IF engine # "" /\ engine # "zarr"
                              THEN "open_dataset"
                              ELSE "open_zarr"
           /\ \/ pc' = "inspect" /\ UNCHANGED exc
              \/ \E e \in ProbeErrors : exc' = e /\ pc' = "except"
    /\ UNCHANGED <<catalog, ids, skip_slow, entries_to_probe, cur, probed,
                   report>>
    /\ UNCHANGED <<notProbeVars, err>>

\* lines 512-517: dims_found, status, the note on the hinted variable (when
\* the dataset has it), ds.close(); the dataset may raise at line 512
\* (nothing assigned yet), at lines 514-515 (dims_found and status
\* assigned) or at line 517 (the note appended as well, if there is one)
ProbeInspect ==
    /\ pc = "inspect"
    /\ LET entry == catalog[cur]
           found == [entry EXCEPT !.dims_found = <<"time", "lat", "lon">>,
                                  !.status = "ok"]
           noted == [found EXCEPT !.notes = Append(@, "Variable shape.")]
       IN  \/ \E e \in ProbeErrors :
                /\ exc' = e
                /\ pc' = "except"
                /\ \/ UNCHANGED catalog
                   \/ \E e2 \in {found, noted} :
                          /\ e2 = noted => entry.variable_hint # ""
                          /\ catalog' = [catalog EXCEPT ![cur] = e2]
           \/ /\ \E e2 \in {found, noted} :
                    /\ e2 = noted => entry.variable_hint # ""
                    /\ catalog' = [catalog EXCEPT ![cur] = e2]
              /\ pc' = "return"
              /\ UNCHANGED exc
    /\ UNCHANGED <<ids, skip_slow, entries_to_probe, cur, kw, opened, probed,
                   report>>
    /\ UNCHANGED <<notProbeVars, err>>

\* faulty variant: the exception is not caught
ProbeExcept_reraise ==
    /\ pc = "except"
    /\ pc' = "raised"
    /\ err' = exc
    /\ UNCHANGED probeVars
    /\ UNCHANGED notProbeVars

\* lines 519-521: except Exception
ProbeExcept ==
    /\ pc = "except"
    /\ catalog' = [catalog EXCEPT ![cur].status = "error", ![cur].error = exc]
    /\ pc' = "return"
    /\ UNCHANGED <<ids, skip_slow, entries_to_probe, cur, kw, opened, exc,
                   probed, report>>
    /\ UNCHANGED <<notProbeVars, err>>

\* lines 523-524, and line 688 of the caller
ProbeReturn ==
    /\ pc = "return"
    /\ \E t \in ElapsedValues :
         /\ catalog' = [catalog EXCEPT ![cur].elapsed_s = t]
         /\ probed' = Append(probed,
                [id |-> catalog[cur].id, status |-> catalog[cur].status,
                 elapsed_s |-> t])
    /\ pc' = "loop"
    /\ exc' = ""
    /\ UNCHANGED <<ids, skip_slow, entries_to_probe, cur, kw, opened, report>>
    /\ UNCHANGED <<notProbeVars, err>>

-----------------------------------------------------------------------------
(* Specification SpecCatalog: main of zarr_catalog.py, lines 678-693 *)

InitCatalog ==
    /\ pc = "select"
    /\ catalog \in Catalogs
    /\ ids \in IdsArgs
    /\ skip_slow \in BOOLEAN
    /\ entries_to_probe = <<>>
    /\ cur = 0
    /\ kw = <<>>
    /\ opened = ""
    /\ exc = ""
    /\ probed = <<>>
    /\ report = <<>>
    /\ NotProbe

\* lines 678-683
SelectEntries ==
    /\ pc = "select"
    /\ entries_to_probe' = Selected(catalog, ids, skip_slow)
    /\ pc' = "loop"
    /\ UNCHANGED <<catalog, ids, skip_slow, cur, kw, opened, exc, probed,
                   report>>
    /\ UNCHANGED <<notProbeVars, err>>

\* lines 685-687: the next entry of entries_to_probe is handed to
\* probe_xarray (every iteration before it has added one item to probed)
LoopNext ==
    /\ pc = "loop"
    /\ Len(probed) < Len(entries_to_probe)
    /\ cur' = entries_to_probe[Len(probed) + 1]
    /\ pc' = "open"
    /\ UNCHANGED <<catalog, ids, skip_slow, entries_to_probe, kw, opened, exc,
                   probed, report>>
    /\ UNCHANGED <<notProbeVars, err>>

\* faulty variant: the report is made of the probed entries only
Report_probed ==
    /\ pc = "loop"
    /\ Len(probed) = Len(entries_to_probe)
    /\ report' = print_report([k \in 1..Len(entries_to_probe) |->
                                  catalog[entries_to_probe[k]]])
    /\ pc' = "done"
    /\ UNCHANGED <<catalog, ids, skip_slow, entries_to_probe, cur, kw, opened,
                   exc, probed>>
    /\ UNCHANGED <<notProbeVars, err>>

\* lines 690-693: the loop is over; the JSON output and the report are both
\* made of CATALOG
Report ==
    /\ pc = "loop"
    /\ Len(probed) = Len(entries_to_probe)
    /\ report' = print_report(catalog)
    /\ pc' = "done"
    /\ UNCHANGED <<catalog, ids, skip_slow, entries_to_probe, cur, kw, opened,
                   exc, probed>>
    /\ UNCHANGED <<notProbeVars, err>>

NextCatalog ==
    \/ SelectEntries
    \/ LoopNext
    \/ ProbeOpen
    \/ ProbeInspect
    \/ ProbeExcept
    \/ ProbeReturn
    \/ Report

SpecCatalog == InitCatalog /\ [][NextCatalog]_vars

-----------------------------------------------------------------------------
(* Specification SpecProbe: a caller calls probe_xarray on the first two   *)
(* entries of CATALOG, any of them any number of times.                    *)

InitProbe ==
    /\ pc = "loop"
    /\ catalog = SubSeq(ModelCatalog, 1, 2)
    /\ ids = {}
    /\ skip_slow = FALSE
    /\ entries_to_probe = <<>>
    /\ cur = 0
    /\ kw = <<>>
    /\ opened = ""
    /\ exc = ""
    /\ probed = <<>>
    /\ report = <<>>
    /\ NotProbe

\* line 486: probe_xarray(entry) for an entry of CATALOG
ProbeCall ==
    /\ pc = "loop"
    /\ Len(probed) < MaxProbes
    /\ \E k \in 1..Len(catalog) : cur' = k
    /\ pc' = "open"
    /\ UNCHANGED <<catalog, ids, skip_slow, entries_to_probe, kw, opened, exc,
                   probed, report>>
    /\ UNCHANGED <<notProbeVars, err>>

NextProbe ==
    \/ ProbeCall
    \/ ProbeOpen
    \/ ProbeInspect
    \/ ProbeExcept
    \/ ProbeReturn

SpecProbe == InitProbe /\ [][NextProbe]_vars

-----------------------------------------------------------------------------
(* Reference notions the properties are stated with.  They are written     *)
(* independently of the operators above: closed forms, not the loops.      *)

\* the product of counts[d+1..], the stride of dimension d in row-major order
Stride(counts, d) ==
    SeqProduct([j \in 1..(Len(counts) - d) |-> counts[d + j]])

\* row-major flattening of a coordinate, last dimension fastest
RECURSIVE StrideSum(_, _, _)
StrideSum(coord, counts, d) ==
    IF d > Len(coord) THEN 0
    ELSE coord[d] * Stride(counts, d) + StrideSum(coord, counts, d + 1)

flattenRowMajor(coord, counts) == StrideSum(coord, counts, 1)

\* the row-major coordinate of flat index i
RowMajorCoord(i, counts) ==
    [d \in 1..Len(counts) |-> (i \div Stride(counts, d)) % counts[d]]

\* ceil(s / c) for positive s and c
Ceil(s, c) == CHOOSE k \in 1..s : k * c >= s /\ (k - 1) * c < s

\* the chunk counts of a layout whose shape and chunk shape have one rank
ChunkCounts(s, c) == [d \in 1..Len(s) |-> Ceil(s[d], c[d])]

InRange(i, counts) == 0 <= i /\ i < SeqProduct(counts)

Ended == pc \in {"done", "raised"}

\* the positions (1-based, in table order) of the rows with a non-null path
NonNullPositions(df) ==
    SelectSeq([p \in 1..Len(df.rows) |-> p],
              LAMBDA p : df.rows[p]["path"] # "NaN")

NullPositions(df) ==
    {p \in 1..Len(df.rows) : df.rows[p]["path"] = "NaN"}

\* the table has pandas' default labels 0..n-1
DefaultIndex(df) == \A p \in 1..Len(df.index) : df.index[p] = p - 1

SameRank == Len(shape) = Len(chunks)

\* the byte length of a row, under whichever of the two names the table has
RowLength(df, p) ==
    IF "size" \in df.columns THEN df.rows[p]["size"]
    ELSE df.rows[p]["length"]

HasLengthColumn(df) == "size" \in df.columns \/ "length" \in df.columns

-----------------------------------------------------------------------------
(* Properties of flat_to_chunk_index, under SpecFlat *)

\* C1: for positive chunk counts and a flat index in [0, product(counts)),
\* flattening the coordinate flat_to_chunk_index returns, in row-major order,
\* gives the flat index back.
C1_RoundTrip ==
    (pc = "done" /\ InRange(flat_idx, n_chunks_per_dim))
        => flattenRowMajor(ret, n_chunks_per_dim) = flat_idx

C1_Witness ==
    /\ pc = "done"
    /\ n_chunks_per_dim = <<2, 3>>
    /\ flat_idx = 5
    /\ ret = <<1, 2>>

\* C3: flat_to_chunk_index with a flat index outside [0, product(counts))
\* ends with an IndexOutOfRange error and returns no coordinate.
C3_OutOfRangeIsError ==
    (Ended /\ ~InRange(flat_idx, n_chunks_per_dim))
        => (pc = "raised" /\ err = "IndexOutOfRange" /\ ret = <<>>)

-----------------------------------------------------------------------------
(* Properties of kerchunk_parquet_to_icechunk, under SpecImplicit *)

\* C2: for a table with the default labels 0..n-1 (and a layout of one rank),
\* the entries are, for each non-null row i, the row-major coordinate of i
\* over the chunk counts ceil(shape[d]/chunks[d]) with the location, offset
\* and length of row i.
C2_ImplicitEntries ==
    (pc = "done" /\ DefaultIndex(refs_df) /\ SameRank) =>
        LET nn == NonNullPositions(refs_df)
        IN  /\ Len(ret) = Len(nn)
            /\ \A j \in 1..Len(nn) :
                 ret[j] = [index    |-> RowMajorCoord(nn[j] - 1,
                                            ChunkCounts(shape, chunks)),
                           location |-> refs_df.rows[nn[j]]["path"],
                           offset   |-> refs_df.rows[nn[j]]["offset"],
                           length   |-> RowLength(refs_df, nn[j])]

C2_Witness ==
    /\ pc = "done"
    /\ shape = <<2, 2>>
    /\ chunks = <<1, 1>>
    /\ DefaultIndex(refs_df)
    /\ Len(ret) = 4
    /\ [j \in 1..4 |-> ret[j].index] = << <<0, 0>>, <<0, 1>>, <<1, 0>>, <<1, 1>> >>
    /\ [j \in 1..4 |-> ret[j].offset] = <<100, 200, 300, 400>>

\* C4: every null row gives no entry and every non-null row exactly one, so
\* there are as many entries as non-null rows, and no entry carries the
\* coordinate of the flat index (the position) of a null row.
C4_HoleSkipping ==
    (pc = "done" /\ DefaultIndex(refs_df) /\ SameRank) =>
        /\ Len(ret) = Len(NonNullPositions(refs_df))
        /\ \A p \in NullPositions(refs_df) :
             InRange(p - 1, ChunkCounts(shape, chunks)) =>
                \A j \in 1..Len(ret) :
                    ret[j].index # RowMajorCoord(p - 1,
                                       ChunkCounts(shape, chunks))

\* C5: the k-th row in table order is given the coordinate of flat index k,
\* whatever the row labels are.
C5_PositionIsFlatIndex ==
    (pc = "done" /\ SameRank) =>
        LET nn == NonNullPositions(refs_df)
        IN  \A j \in 1..Len(ret) :
                ret[j].index = RowMajorCoord(nn[j] - 1,
                                   ChunkCounts(shape, chunks))

\* C6: the entries one call returns have pairwise distinct coordinates, for
\* every table and layout, tables with more rows than chunks included
\* (stated for the layouts of one rank, where it already fails).
C6_DistinctCoordinates ==
    (pc = "done" /\ SameRank) =>
        \A a, b \in 1..Len(ret) : a # b => ret[a].index # ret[b].index

\* C8: a shape and a chunk shape of different rank end the call with
\* DimensionMismatch and no entries (stated for the tables that have a
\* length column, so that no other error is in play).
C8_RankValidation ==
    (Ended /\ ~SameRank /\ HasLengthColumn(refs_df))
        => (pc = "raised" /\ err = "DimensionMismatch" /\ ret = <<>>)

\* C9: the byte length is read from column size, or from length when there
\* is no size, and a table with neither column ends the call with a
\* missing-column error, whatever its rows are.
C9_LengthColumn ==
    Ended =>
        IF HasLengthColumn(refs_df)
        THEN /\ pc = "done"
             /\ \A j \in 1..Len(ret) :
                    ret[j].length =
                        RowLength(refs_df, NonNullPositions(refs_df)[j])
        ELSE pc = "raised" /\ err \in {"MissingColumn", "KeyError"}

\* C10: whatever the number of rows is (fewer than, as many as, or more than
\* the number of chunks), a table with a length column converts without
\* error to one entry per non-null row, so fewer non-null rows than chunks
\* give fewer entries than chunks.
C10_RowCountFree ==
    (Ended /\ HasLengthColumn(refs_df)) =>
        /\ pc = "done"
        /\ err = ""
        /\ Len(ret) = Len(NonNullPositions(refs_df))

C10_Witness ==
    /\ pc = "done"
    /\ SameRank
    /\ Len(refs_df.rows) > SeqProduct(ChunkCounts(shape, chunks))
    /\ Len(ret) = Len(refs_df.rows)

-----------------------------------------------------------------------------
(* Properties of create_icechunk_from_flat_parquet, under SpecCreate *)

\* C7: every entry handed to set_virtual_refs for a variable has a coordinate
\* of the rank of the variable's declared shape, with component d in
\* [0, ceil(shape[d]/chunks[d])).
C7_EntriesInGrid ==
    \A k \in 1..Len(store.refs) :
        LET meta == Item(metadata, store.refs[k][1])
            specs == store.refs[k][2]
        IN  \A j \in 1..Len(specs) :
                /\ Len(specs[j].index) = Len(meta.shape)
                /\ \A d \in 1..Len(meta.shape) :
                      /\ 0 <= specs[j].index[d]
                      /\ specs[j].index[d] < Ceil(meta.shape[d], meta.chunks[d])

-----------------------------------------------------------------------------
(* Format disambiguation (SpecCreate) *)

\* the column names of the form i<digits>, spelled out
IndexColumnNames ==
    {"i0", "i1", "i2", "i3", "i4", "i5", "i6", "i7", "i8", "i9", "i10"}

\* the table has a variable column and at least one column named i<digits>
LooksExplicit(df) ==
    /\ "variable" \in df.columns
    /\ df.columns \cap IndexColumnNames # {}

\* C11: once the conversion has been selected, it is the explicit one
\* exactly when the table has a variable column and at least one column
\* named i<digits>, and the implicit one otherwise; a table with the columns
\* path, offset, size is converted implicitly, one with the columns variable,
\* i0, i1, path, offset, length explicitly.
C11_FormatSelection ==
    format # "" =>
        /\ format = (IF LooksExplicit(refs_df) THEN "explicit" ELSE "implicit")
        /\ refs_df.columns = {"path", "offset", "size"} => format = "implicit"
        /\ refs_df.columns = {"variable", "i0", "i1", "path", "offset", "length"}
               => format = "explicit"

\* a table with a variable column and a column id, which is no index column,
\* has been converted implicitly
C11_Witness ==
    /\ format = "implicit"
    /\ refs_df.columns = {"variable", "id", "path", "offset", "length"}
    /\ Len(refs_df.rows) > 0

-----------------------------------------------------------------------------
(* The implicit conversion needs exactly one layout (SpecCreate) *)

\* C12: when the implicit conversion has been selected and metadata holds
\* no layout or more than one, the call fails with the ValueError of line
\* 186 (the AmbiguousVariable error): no row has been converted, nothing has
\* been written to the store and no snapshot has been committed.
C12_OneLayoutForImplicit ==
    (format = "implicit" /\ Len(metadata) # 1) =>
        /\ pc = "raised"
        /\ err = "ValueError"
        /\ var_specs = <<>>
        /\ written = 0
        /\ store.refs = <<>>
        /\ store.commits = 0
        /\ ret = <<>>

\* a table of two convertible rows met a metadata of two layouts
C12_Witness ==
    /\ format = "implicit"
    /\ Len(metadata) = 2
    /\ pc = "raised"
    /\ Len(refs_df.rows) = 2
    /\ NullPositions(refs_df) = {}

-----------------------------------------------------------------------------
(* Properties of explicit_parquet_to_icechunk, under SpecExplicit *)

\* the variables of the table: the non-null values of its variable column
VariablesOf(df) ==
    { df.rows[p]["variable"] : p \in 1..Len(df.rows) } \ {"NaN"}

\* the positions of the rows of variable v with a non-null path, in table
\* order
RowsOf(df, v) ==
    SelectSeq([p \in 1..Len(df.rows) |-> p],
              LAMBDA p : df.rows[p]["variable"] = v
                         /\ df.rows[p]["path"] # "NaN")

\* the items of the returned dict whose key is v
ItemsOf(d, v) == { k \in 1..Len(d) : d[k][1] = v }

\* the table has what the conversion reads besides the index columns
HasExplicitColumns(df) ==
    {"variable", "path", "offset", "length"} \subseteq df.columns

\* C13: the entries returned for a variable v are, one for one, the rows of
\* variable v with a non-null path, each with its row's path, offset and
\* length; no entry comes from a row of another variable.  For the table
\* of example 2 (8 rows, sst and anom over 4 coordinates) the dict holds two
\* lists of 4 entries.
C13_GroupedByVariable ==
    (pc = "done" /\ HasExplicitColumns(refs_df)) =>
        /\ \A v \in VariablesOf(refs_df) :
              /\ Cardinality(ItemsOf(ret, v)) = 1
              /\ LET specs == ret[CHOOSE k \in ItemsOf(ret, v) : TRUE][2]
                     rows == RowsOf(refs_df, v)
                 IN  /\ Len(specs) = Len(rows)
                     /\ \A j \in 1..Len(specs) :
                           LET row == refs_df.rows[rows[j]]
                           IN  /\ row["variable"] = v
                               /\ specs[j].location = row["path"]
                               /\ specs[j].offset = row["offset"]
                               /\ specs[j].length = row["length"]
        /\ refs_df = explicit_df =>
              /\ Len(ret) = 2
              /\ \A k \in 1..2 : Len(ret[k][2]) = 4

\* the table of example 2 has been converted
C13_Witness ==
    /\ pc = "done"
    /\ refs_df = explicit_df
    /\ Len(ret) = 2

\* the name of the index column of dimension d (0-based)
IndexColumn(d) ==
    <<"i0", "i1", "i2", "i3", "i4", "i5", "i6", "i7", "i8", "i9", "i10">>[d + 1]

\* how many index columns the table has
IndexColumnCount(df) == Cardinality(df.columns \cap IndexColumnNames)

\* how many index columns the table has without a gap, from i0 on
ContiguousRank(df) ==
    Cardinality({ r \in 1..11 :
                    \A d \in 0..(r - 1) : IndexColumn(d) \in df.columns })

\* the entries returned for variable v
SpecsOf(d, v) == d[CHOOSE k \in ItemsOf(d, v) : TRUE][2]

\* C14: for a table whose index columns are i0 .. i<r-1>, of any rank r
\* (rank 11, with the columns i0 .. i10, included), every entry's coordinate
\* has r components and its component d is its row's value in column i<d>.
C14_DimensionOrder ==
    (/\ pc = "done"
     /\ HasExplicitColumns(refs_df)
     /\ ContiguousRank(refs_df) >= 1
     /\ ContiguousRank(refs_df) = IndexColumnCount(refs_df)) =>
        \A v \in VariablesOf(refs_df) :
            \A j \in 1..Len(RowsOf(refs_df, v)) :
                LET row == refs_df.rows[RowsOf(refs_df, v)[j]]
                    index == SpecsOf(ret, v)[j].index
                IN  /\ Len(index) = ContiguousRank(refs_df)
                    /\ \A d \in 0..(Len(index) - 1) :
                          index[d + 1] = row[IndexColumn(d)]

\* C15: the rank is the number of index columns without a gap from i0 on
\* (a column after a gap does not count); a table without such a column is
\* refused with MissingIndexColumns, and no coordinate of rank zero is ever
\* returned.  Stated for the tables with a row to convert.
C15_RankInference ==
    (/\ Ended
     /\ HasExplicitColumns(refs_df)
     /\ \E v \in VariablesOf(refs_df) : RowsOf(refs_df, v) # <<>>) =>
        IF ContiguousRank(refs_df) = 0
        THEN pc = "raised" /\ err = "MissingIndexColumns"
        ELSE pc = "done" =>
               \A k \in 1..Len(ret) : \A j \in 1..Len(ret[k][2]) :
                   Len(ret[k][2][j].index) = ContiguousRank(refs_df)

\* the offsets of the entries of the returned dict
ReturnedOffsets(d) ==
    UNION { { d[k][2][j].offset : j \in 1..Len(d[k][2]) } : k \in 1..Len(d) }

\* C16: the call either fails, and then returns no entries at all, or
\* returns an entry for every row with a non-null path: the only rows left
\* out of a returned result are the rows with a null path.
C16_NoPartialResult ==
    Ended =>
        IF pc = "raised" THEN ret = <<>>
        ELSE HasExplicitColumns(refs_df) =>
               \A p \in 1..Len(refs_df.rows) :
                   refs_df.rows[p]["path"] # "NaN" =>
                       refs_df.rows[p]["offset"] \in ReturnedOffsets(ret)

-----------------------------------------------------------------------------
(* Determinism of the conversions (SpecSession) *)

\* two calls of one function with the same arguments
SameCall(a, b) ==
    /\ a.fn = b.fn
    /\ a.df = b.df
    /\ a.shape = b.shape
    /\ a.chunks = b.chunks

-----------------------------------------------------------------------------
(* Properties of the parallel fan-out, under SpecFanout *)

\* the dates whose task ended in state st
DatesIn(st) == { futures[k].date : k \in InState(st) }

\* the dates a line of kind l was printed for
PrintedFor(l) == { printed[k].date : k \in { j \in 1..Len(printed) : printed[j].line = l } }

\* C18: once main is past the fan-out, however it ends, every submitted
\* task has run to completion, none was cancelled by the failure of
\* another; the result of every task that succeeded has been collected
\* under its date, and every failure has been reported with its date.
C18_FailureIsolation ==
    pc # "submit" =>
        /\ Len(futures) = Len(dates)
        /\ \A k \in 1..Len(futures) : futures[k].state \in {"ok", "exc"}
        /\ Keys(results) = DatesIn("ok")
        /\ PrintedFor("FAILED") = DatesIn("exc")
        /\ Len(printed) = Len(dates)

\* the first future collected had failed, and two others were collected
\* after it, with their datasets
C18_Witness ==
    /\ pc = "done"
    /\ printed # <<>>
    /\ printed[1].line = "FAILED"
    /\ Len(results) >= 2

\* C19: whatever the order of completion, the list handed to xr.concat
\* holds exactly the datasets of the dates that were virtualized, each once,
\* in strictly ascending date order.
C19_OrderedBeforeMerge ==
    pc \in {"write", "done"} =>
        /\ { ordered[k].time : k \in 1..Len(ordered) } = DatesIn("ok")
        /\ Len(ordered) = Cardinality(DatesIn("ok"))
        /\ \A i, j \in 1..Len(ordered) :
              i < j => ordered[i].time < ordered[j].time

\* the datasets were collected in descending date order and handed over
C19_Witness ==
    /\ pc = "write"
    /\ Len(results) >= 2
    /\ \A k \in 1..(Len(results) - 1) : results[k].key > results[k + 1].key

-----------------------------------------------------------------------------
(* Properties of _unwrap_and_convert, under SpecCodec *)

\* the value reached by following the key configuration as far as it goes
RECURSIVE Innermost(_)
Innermost(v) ==
    IF v.t = "dict" /\ "configuration" \in DOMAIN v.d
    THEN Innermost(v.d["configuration"])
    ELSE v

\* the configuration is a dict whose name starts with imagecodecs_
IsImagecodecsWrapper(v) ==
    /\ v.t = "dict"
    /\ "name" \in DOMAIN v.d
    /\ v.d["name"] \in {"imagecodecs_zstd"}

\* C20: for a configuration whose name starts with imagecodecs_, of any
\* nesting depth, the call comes to an end and returns the innermost value
\* of the nesting; when that is a dict it has no key configuration; the
\* wrapped zstd configuration of lines 24-28 gives the flat
\* {id: zstd, level: 9}.
C20_UnwrapTerminates ==
    <>[](IsImagecodecsWrapper(codec_config) =>
            /\ pc = "done"
            /\ err = ""
            /\ ret = Innermost(codec_config)
            /\ ret.t = "dict" => "configuration" \notin DOMAIN ret.d
            /\ codec_config = WrappedZstd =>
                  ret = Dict([id |-> "zstd", level |-> 9]))

\* the wrapped zstd configuration of lines 24-28 has been unwrapped
C20_Witness ==
    /\ pc = "done"
    /\ codec_config = WrappedZstd
    /\ ret = Dict([id |-> "zstd", level |-> 9])

\* C21: results is written by the collecting loop of main only, one item
\* for the future as_completed has just yielded, and never by a step of a
\* worker thread (a step that changes the state of a task); and when main
\* is at the combine step or past it, every submitted task has completed
\* and every submitted date is either a key of results or a reported
\* failure, never both: successes + failures = number of submitted files.
C21_KeyedCollection ==
    /\ [][/\ futures' # futures => results' = results
          /\ results' # results =>
                /\ pc = "submit"
                /\ Len(results') = Len(results) + 1
                /\ Cardinality(yielded') = Cardinality(yielded) + 1]_vars
    /\ [](pc \in {"combine", "write", "done"} =>
            /\ Len(futures) = Len(dates)
            /\ InState("pending") \cup InState("running") = {}
            /\ Keys(results) \cup PrintedFor("FAILED")
                   = { dates[k] : k \in 1..Len(dates) }
            /\ Keys(results) \cap PrintedFor("FAILED") = {}
            /\ Len(results) = Cardinality(Keys(results))
            /\ Len(results) + Cardinality(PrintedFor("FAILED")) = Len(dates))

\* main is at the combine step with one failure reported and two datasets
\* collected
C21_Witness ==
    /\ pc = "combine"
    /\ Len(results) = 2
    /\ Cardinality(PrintedFor("FAILED")) = 1

\* C22: whatever the pattern of successes and failures, the one where every
\* task fails included, the summary of lines 168-170 raises nothing: main
\* never ends there with a ZeroDivisionError.
C22_SummaryNeverRaises ==
    ~(pc = "raised" /\ err = "ZeroDivisionError")

-----------------------------------------------------------------------------
(* The output store of create_icechunk_from_flat_parquet (SpecCreate) *)

\* the call fails the validation of its arguments: the implicit conversion
\* with no layout or several, or the explicit one with a variable of the
\* table that metadata has no layout for
FailsValidation ==
    IF LooksExplicit(refs_df)
    THEN \E v \in VariablesOf(refs_df) : ~HasKey(metadata, v)
    ELSE Len(metadata) # 1

\* C23: the validation comes before any effect on the output store: in a
\* call that fails it, no step changes a store that was at output_path
\* before the call (it is neither removed nor created anew).
C23_EagerValidation ==
    [][(FailsValidation /\ store = OldStore) => store' = OldStore]_vars

\* C24: the session is committed at most once, and only when the
\* coordinate arrays, the array of every variable and the references of
\* every variable have been written; a call that raises has committed
\* nothing.
C24_CommitOnceAtEnd ==
    store.state = "new" =>
        /\ store.commits <= 1
        /\ pc = "raised" => store.commits = 0
        /\ store.commits = 1 =>
              /\ pc = "done"
              /\ \A k \in 1..Len(coords_in) : coords_in[k] \in store.arrays
              /\ written = Len(var_specs)
              /\ store.refs = var_specs
              /\ \A k \in 1..Len(var_specs) : var_specs[k][1] \in store.arrays
              /\ IF format = "explicit"
                 THEN VariablesOf(refs_df) \subseteq store.arrays
                 ELSE metadata[1].var \in store.arrays

\* two variables and the coordinate arrays were written, then the one
\* commit was made
C24_Witness ==
    /\ pc = "done"
    /\ store.commits = 1
    /\ Len(store.refs) = 2
    /\ coords_in # <<>>

-----------------------------------------------------------------------------
(* Uniqueness of the coordinates (SpecExplicit) *)

\* C25: no two entries of the list returned for one variable have the same
\* coordinate, also for a table where two rows of one variable hold the
\* same index values.  Stated for the tables whose index columns are
\* i0 .. i<r-1>, r >= 1.
C25_UniqueCoordinates ==
    (/\ pc = "done"
     /\ ContiguousRank(refs_df) >= 1
     /\ ContiguousRank(refs_df) = IndexColumnCount(refs_df)) =>
        \A k \in 1..Len(ret) :
            \A i, j \in 1..Len(ret[k][2]) :
                i # j => ret[k][2][i].index # ret[k][2][j].index

-----------------------------------------------------------------------------
(* Properties of zarr_catalog.py *)

\* the ids of the entries --ids and --skip-slow select, in catalog order
SelectedIds ==
    LET sel(k) == /\ (ids = {} \/ catalog[k].id \in ids)
                  /\ ~(skip_slow /\ catalog[k].id \in
                          {"arco-era5-single-level", "arco-era5-v3"})
    IN  SelectSeq([k \in 1..Len(catalog) |-> catalog[k].id],
                  LAMBDA i : \E k \in 1..Len(catalog) :
                                 catalog[k].id = i /\ sel(k))

\* C26 (SpecCatalog): no exception raised while a store is opened or
\* inspected leaves probe_xarray: every call returns, with a status of ok
\* or error and elapsed_s set; in main the loop is never cut short, and when
\* it is over every selected entry has been probed exactly once, in
\* catalog order.
C26_ProbeNeverRaises ==
    /\ pc # "raised"
    /\ err = ""
    /\ \A k \in 1..Len(probed) :
          /\ probed[k].status \in {"ok", "error"}
          /\ probed[k].elapsed_s \in ElapsedValues
          /\ probed[k].id = SelectedIds[k]
    /\ pc = "done" => [k \in 1..Len(probed) |-> probed[k].id] = SelectedIds

\* the first endpoint failed and two more were probed after it
C26_Witness ==
    /\ pc = "done"
    /\ Len(probed) = 3
    /\ probed[1].status = "error"
    /\ probed[3].status = "ok"

\* C27 (SpecProbe): after any sequence of calls of probe_xarray, also one
\* that probes an entry again after a failed probe, the status and the
\* error of every entry agree: ok goes with an empty error, error with a
\* non-empty one.
C27_StatusErrorAgree ==
    pc = "loop" =>
        \A k \in 1..Len(catalog) :
            /\ catalog[k].status = "ok" => catalog[k].error = ""
            /\ catalog[k].status = "error" => catalog[k].error # ""

\* C28 (SpecCatalog): the report and the JSON output are made of the whole
\* CATALOG: after the loop every selected entry has status ok or error,
\* every other entry is still untested, every entry is listed, and the
\* counts ok + error + untested add up to the number of entries.
C28_ReportCoversCatalog ==
    pc = "done" =>
        /\ \A k \in 1..Len(catalog) :
              IF \E j \in 1..Len(SelectedIds) : SelectedIds[j] = catalog[k].id
              THEN catalog[k].status \in {"ok", "error"}
              ELSE catalog[k].status = "untested"
        /\ report.listed = [k \in 1..Len(catalog) |-> catalog[k].id]
        /\ report.ok + report.error + report.untested = Len(catalog)
        /\ report.untested = Len(catalog) - Len(SelectedIds)

\* a report with one entry ok, one in error and one not probed
C28_Witness ==
    /\ pc = "done"
    /\ report.ok = 1
    /\ report.error = 1
    /\ report.untested = 1

\* the fields of an entry probe_xarray is not to change
Configuration(e) ==
    <<e.id, e.store_url, e.zarr_version, e.variable_hint, e.gdal_dsn,
      DOMAIN e.open_kwargs>>

\* C29 (SpecProbe): no step of probe_xarray, in a probe that succeeds or
\* in one that fails, changes the id, store_url, zarr_version,
\* variable_hint, gdal_dsn or the keys of open_kwargs of an entry (engine
\* and backend_kwargs are popped from a copy).
C29_ConfigurationUnchanged ==
    [][/\ Len(catalog') = Len(catalog)
       /\ \A k \in 1..Len(catalog) :
             Configuration(catalog'[k]) = Configuration(catalog[k])]_vars

\* the entry with engine and backend_kwargs was probed twice, once with
\* success and once without, and still has both keys
C29_Witness ==
    /\ pc = "loop"
    /\ Len(probed) = 2
    /\ probed[1].id = "oisst-kerchunk" /\ probed[1].status = "ok"
    /\ probed[2].id = "oisst-kerchunk" /\ probed[2].status = "error"
    /\ {"engine", "backend_kwargs"} \subseteq DOMAIN catalog[2].open_kwargs

\* the configuration names a codec that is no numcodecs filter
IsZarrInternal(v) ==
    /\ v.t = "dict"
    /\ \/ /\ "name" \in DOMAIN v.d
          /\ v.d["name"] \in {"HorizontalDeltaCodec", "BytesCodec", "bytes"}
       \/ /\ "id" \in DOMAIN v.d
          /\ v.d["id"] = "bytes"

\* C30 (SpecPatch): for a configuration that is not an imagecodecs wrapper,
\* _unwrap_and_convert returns None when the name is HorizontalDeltaCodec,
\* BytesCodec or bytes or the id is bytes; otherwise the result of the
\* original converter, and, when that raises KeyError or TypeError, the
\* configuration itself if it is a dict with a key id and None otherwise.
\* _patched_convert drops every None result, the last codec that remains
\* is the compressor and the ones before it are the filters, None when
\* fewer than two remain.
C30_SkipAndFallback ==
    /\ [](pc = "done" /\ ~IsImagecodecsWrapper(codec_config) =>
            IF IsZarrInternal(codec_config)
            THEN ret = None /\ orig = ""
            ELSE /\ orig \in {"returns", "KeyError", "TypeError"}
                 /\ orig = "returns" => ret = [t |-> "v2", of |-> codec_config]
                 /\ orig # "returns" =>
                       ret = IF codec_config.t = "dict"
                                /\ "id" \in DOMAIN codec_config.d
                             THEN codec_config ELSE None)
    /\ [][pc = "done" =>
            v2_codecs' = IF ret = None THEN v2_codecs
                         ELSE Append(v2_codecs, ret)]_vars
    /\ [](\A k \in 1..Len(v2_codecs) : v2_codecs[k] # None)
    /\ [](pc = "returned" =>
            LET n == Len(v2_codecs)
            IN  /\ ret.compressor = IF n = 0 THEN None ELSE v2_codecs[n]
                /\ ret.filters =
                      IF n < 2 THEN None
                      ELSE [t |-> "list",
                            items |-> [k \in 1..(n - 1) |-> v2_codecs[k]]])

\* three codecs: an internal one that is dropped, one the original
\* converter converts, and a flat zstd the original converter fails on,
\* which becomes the compressor
C30_Witness ==
    /\ pc = "returned"
    /\ codecs = <<Dict([name |-> "bytes"]), Dict(<<>>),
                  Dict([id |-> "zstd", level |-> 9])>>
    /\ orig = "KeyError"
    /\ ret.compressor = Dict([id |-> "zstd", level |-> 9])
    /\ ret.filters = List(<<[t |-> "v2", of |-> Dict(<<>>)]>>)

====
